---- MODULE Spec2Model ----
(***************************************************************************)
(* A model of konfi: the converter registry (converter.py), the conversion *)
(* engine and the built-in converters (converter.py, converters.py), the   *)
(* type introspection (typeinspect.py), the field loader (source.py), the  *)
(* completion check (templ.py) and the loader (loader.py).                 *)
(***************************************************************************)
EXTENDS Naturals, Integers, Sequences, FiniteSets, TLC

VARIABLES
    _CONVERTERS,          \* converter.py:83  dict: type -> list of simple converters
    _COMPLEX_CONVERTERS,  \* converter.py:84  list of complex converter instances
    cache,                \* the lru_cache of _get_complex_converters (converter.py:185)
    created,              \* number of complex converter instances made by register_converter
    heap,                 \* the objects created from templates, in order of creation
    _sources,             \* loader.py:37  Loader._sources of the loader of the client
    lastCall              \* the last call made by the client and what it returned or raised

vars == <<_CONVERTERS, _COMPLEX_CONVERTERS, cache, created, heap, _sources, lastCall>>

----------------------------------------------------------------------------
(* Bounds of the model.                                                     *)

\* number of converter registrations (simple entries and complex instances) the
\* client keeps at a time, and number of complex instances it lets
\* register_converter create
MaxRegistered == 2

----------------------------------------------------------------------------
(* Sequences.                                                               *)

Reverse(s) == [i \in 1..Len(s) |-> s[Len(s) + 1 - i]]

Range(s) == {s[i] : i \in 1..Len(s)}

\* list.remove(x): drops the first element equal to x (the caller checks x is in s)
RemoveFirst(s, x) ==
    LET i == CHOOSE j \in 1..Len(s) : s[j] = x /\ \A h \in 1..(j - 1) : s[h] # x
    IN  [j \in 1..(Len(s) - 1) |-> IF j < i THEN s[j] ELSE s[j + 1]]

----------------------------------------------------------------------------
(* Type descriptors.  A class is [k = "class"], a typing alias such as     *)
(* List[int] is [k = "alias"] with its __origin__ in n and its __args__ in  *)
(* args; Any, None (used as a type) and Ellipsis are [k = "special"].       *)

Cls(n) == [k |-> "class", n |-> n, args |-> <<>>]
Alias(n, a) == [k |-> "alias", n |-> n, args |-> a]
Special(n) == [k |-> "special", n |-> n, args |-> <<>>]
TypeVarOf(n) == [k |-> "typevar", n |-> n, args |-> <<>>]

AnyType == Special("Any")
NoneKey == Special("None")
EllipsisArg == Special("Ellipsis")
NoneType == Cls("NoneType")

\* the classes of the client
SentinelA == Cls("SentinelA")
MyEnum == Cls("MyEnum")
UnionAE == Alias("Union", <<SentinelA, MyEnum>>)

\* classes c with issubclass(c, collections.abc.Iterable) / (c, Mapping) / (c, tuple)
IterableClasses == {"list", "tuple", "set", "dict", "str", "bytes", "Iterable", "Mapping"}
MappingClasses == {"dict", "Mapping"}

\* the templates and enums that are declared
TemplateClasses == {"Conf", "Sub", "Inner", "Outer", "Root", "Opt", "Holder"}
EnumClasses == {"MyEnum", "Color"}

get_origin(typ) == IF typ.k = "alias" THEN typ.n ELSE "None"

has_origin(typ, classes) == get_origin(typ) # "None" /\ get_origin(typ) \in classes

get_type_args(typ) == IF typ.k = "alias" THEN typ.args ELSE <<>>

get_parameters(typ) ==
    IF typ.k = "alias" THEN SelectSeq(typ.args, LAMBDA a : a.k = "typevar") ELSE <<>>

has_free_parameters(typ) == Len(get_parameters(typ)) > 0

is_any(typ) == typ = AnyType

is_union(typ) == get_origin(typ) = "Union"

is_generic(typ) == typ.k = "alias"

is_tuple(typ) == get_origin(typ) = "tuple"

is_generic_iterable(typ) == is_generic(typ) /\ has_origin(typ, IterableClasses)

is_generic_mapping(typ) == is_generic(typ) /\ has_origin(typ, MappingClasses)

resolve_tuple(typ) ==
    LET args == get_type_args(typ)
    IN  IF Len(args) = 2 /\ args[2] = EllipsisArg
        THEN [types |-> <<args[1]>>, variadic |-> TRUE, n |-> 0]
        ELSE [types |-> args, variadic |-> FALSE, n |-> Len(args)]

is_template_like(typ) == typ.k = "class" /\ typ.n \in TemplateClasses

is_enum(typ) == typ.k = "class" /\ typ.n \in EnumClasses

----------------------------------------------------------------------------
(* Converters.  A converter object is [n, o, i]: n names the function or   *)
(* the class; o tells a callable (a function, or a class such as int that  *)
(* is called with the value) from a ConverterABC class and from an         *)
(* instance of one; instance i >= 1 of a complex converter class was made   *)
(* by register_converter, instance 0 by the client.                        *)

Func(n) == [n |-> n, o |-> "callable", i |-> 0]
Class(n) == [n |-> n, o |-> "class", i |-> 0]
Inst(n, i) == [n |-> n, o |-> "instance", i |-> i]

BuiltinComplexClasses ==
    <<"UnionConverter", "TupleConverter", "IterableConverter",
      "MappingConverter", "TemplateConverter", "EnumConverter">>

\* the complex converter class of the client (tests/konfi/test_converter.py:33)
UserComplexClasses == {"Complex"}

ComplexClasses == Range(BuiltinComplexClasses) \cup UserComplexClasses

\* a complex converter class of the client whose constructor raises
BrokenComplex == Class("BrokenComplex")

\* the simple converters of the client: a function and a ConverterABC class
UserSimple == {Func("func_conv"), Class("ClassConv")}

\* an object that is no converter: not callable
NotAConverter == [n |-> "not_callable", o |-> "object", i |-> 0]

is_converter_type(obj) == obj.o \in {"callable", "class", "instance"}

is_complex_converter(obj) ==
    obj.o \in {"class", "instance"} /\ obj.n \in ComplexClasses \cup {BrokenComplex.n}

isclass(obj) == obj.o = "class"

----------------------------------------------------------------------------
(* The registry as converters.py leaves it when konfi is imported.          *)

BuiltinSimple ==
    LET one(key, conv) == key :> <<Func(conv)>>
    IN  one(Cls("bool"), "bool") @@ one(Cls("int"), "int")
        @@ one(Cls("float"), "float") @@ one(Cls("complex"), "complex")
        @@ one(Cls("str"), "str") @@ one(Cls("bytes"), "bytes")
        @@ one(Alias("tuple", <<>>), "to_tuple") @@ one(Cls("tuple"), "to_tuple")
        @@ one(Alias("list", <<TypeVarOf("T")>>), "to_list") @@ one(Cls("list"), "to_list")
        @@ one(Alias("set", <<TypeVarOf("T")>>), "to_set") @@ one(Cls("set"), "to_set")
        @@ one(Alias("dict", <<TypeVarOf("KT"), TypeVarOf("VT")>>), "to_dict")
        @@ one(Cls("dict"), "to_dict")
        @@ one(NoneKey, "none_converter") @@ one(NoneType, "none_converter")
        @@ one(AnyType, "any_convert")
        @@ one(Alias("Iterable", <<TypeVarOf("T_co")>>), "iterable_converter")
        @@ one(Cls("Iterable"), "iterable_converter")
        @@ one(Alias("Mapping", <<TypeVarOf("KT"), TypeVarOf("VT_co")>>), "mapping_converter")
        @@ one(Cls("Mapping"), "mapping_converter")

BuiltinComplex == [i \in 1..Len(BuiltinComplexClasses) |-> Inst(BuiltinComplexClasses[i], 1)]

----------------------------------------------------------------------------
(* Lookup.  Every operator that may fill the lru_cache takes the cache as  *)
(* it finds it (cch) and returns the cache as it leaves it.                *)

RECURSIVE lookup(_, _), all_has(_, _, _), can_convert(_, _, _), scan_complex(_, _, _, _)

\* has_converter over types[i..], as all(map(has_converter, types)) does it:
\* it stops at the first type without a converter
all_has(types, i, cch) ==
    IF i > Len(types) THEN [ok |-> TRUE, cache |-> cch]
    ELSE LET r == lookup(types[i], cch)
         IN  IF Len(r.res) > 0 THEN all_has(types, i + 1, r.cache)
             ELSE [ok |-> FALSE, cache |-> r.cache]

\* c.can_convert(target) of the complex converter instance c
can_convert(c, target, cch) ==
    LET no == [ok |-> FALSE, cache |-> cch]
        yes == [ok |-> TRUE, cache |-> cch]
        origin == Cls(get_origin(target))
    IN  CASE c.n = "UnionConverter" ->
               IF is_union(target) THEN all_has(get_type_args(target), 1, cch) ELSE no
          [] c.n = "TupleConverter" ->
               IF is_tuple(target) /\ ~has_free_parameters(target)
               THEN all_has(<<origin>> \o resolve_tuple(target).types, 1, cch)
               ELSE no
          [] c.n = "IterableConverter" ->
               IF /\ is_generic_iterable(target)
                  /\ ~has_free_parameters(target)
                  /\ ~is_tuple(target)
                  /\ ~is_generic_mapping(target)
               THEN all_has(<<origin, get_type_args(target)[1]>>, 1, cch)
               ELSE no
          [] c.n = "MappingConverter" ->
               IF is_generic_mapping(target) /\ ~has_free_parameters(target)
               THEN all_has(<<origin>> \o get_type_args(target), 1, cch)
               ELSE no
          [] c.n = "TemplateConverter" -> IF is_template_like(target) THEN yes ELSE no
          [] c.n = "EnumConverter" -> IF is_enum(target) THEN yes ELSE no
          [] c.n = "Complex" -> IF target = SentinelA THEN yes ELSE no
          [] OTHER -> no

\* tuple(c for c in convs[i..] if c.can_convert(target)), found so far: acc
scan_complex(convs, i, target, st) ==
    IF i > Len(convs) THEN st
    ELSE LET r == can_convert(convs[i], target, st.cache)
         IN  scan_complex(convs, i + 1, target,
                          [res |-> IF r.ok THEN Append(st.res, convs[i]) ELSE st.res,
                           cache |-> r.cache])

\* _get_complex_converters(target) behind its lru_cache
_get_complex_converters(target, cch) ==
    IF target \in DOMAIN cch THEN [res |-> cch[target], cache |-> cch]
    ELSE LET r == scan_complex(Reverse(_COMPLEX_CONVERTERS), 1, target,
                               [res |-> <<>>, cache |-> cch])
         IN  [res |-> r.res, cache |-> (target :> r.res) @@ r.cache]

\* get_converters(target); res is what it returns
lookup(target, cch) ==
    IF target \in DOMAIN _CONVERTERS
    THEN [res |-> Reverse(_CONVERTERS[target]), cache |-> cch]
    ELSE _get_complex_converters(target, cch)

get_converters(target) == lookup(target, cache).res

has_converter(target) == Len(get_converters(target)) > 0

\* the slip of not clearing the cache after a change of the lists
keep_converter_cache == cache

\* _get_complex_converters.cache_clear(): the cache afterwards
_clear_converter_cache == <<>>

----------------------------------------------------------------------------
(* The registry operations.                                                 *)

\* the types the client registers converters for, and those it looks up
RegTypes == {SentinelA, MyEnum}
LookupTypes == {SentinelA, MyEnum, UnionAE}

\* the converter objects the client hands to register_converter
Registrable ==
    UserSimple \cup {Class("Complex"), Inst("Complex", 0), BrokenComplex, NotAConverter}

\* the number of entries in the lists of the client's types
RECURSIVE entries_of(_, _)
entries_of(simple, types) ==
    IF types = {} THEN 0
    ELSE LET typ == CHOOSE t \in types : TRUE
         IN  (IF typ \in DOMAIN simple THEN Len(simple[typ]) ELSE 0)
             + entries_of(simple, types \ {typ})

\* the registrations of the client that are in place
registered ==
    entries_of(_CONVERTERS, RegTypes) + Len(_COMPLEX_CONVERTERS) - Len(BuiltinComplex)

\* cs = _CONVERTERS.setdefault(typ, []); cs.append(target), for every typ of types
append_simple(simple, types, target) ==
    [typ \in DOMAIN simple \cup types |->
        IF typ \in types
        THEN Append(IF typ \in DOMAIN simple THEN simple[typ] ELSE <<>>, target)
        ELSE simple[typ]]

\* the slip of dropping the check of the types given for a complex converter
raises_unless_typed(target, types) ==
    IF ~is_converter_type(target) THEN "TypeError"
    ELSE IF is_complex_converter(target)
         THEN IF isclass(target) /\ target = BrokenComplex THEN "ValueError" ELSE ""
         ELSE IF types = {} THEN "ValueError" ELSE ""

\* what the decorator of register_converter(*types) raises for target, "" for nothing
register_raises(target, types) ==
    IF ~is_converter_type(target) THEN "TypeError"
    ELSE IF is_complex_converter(target)
         THEN IF types # {} THEN "ValueError"
              ELSE IF isclass(target) /\ target = BrokenComplex THEN "ValueError"
              ELSE ""
         ELSE IF types = {} THEN "ValueError" ELSE ""

\* register_converter(*types)(target)
register_converter(target, types) ==
    LET raised == register_raises(target, types)
        call == [op |-> "register", raised |-> raised, cached |-> cache]
    IN  /\ lastCall' = call
        /\ UNCHANGED <<heap, _sources>>
        /\ IF raised # ""
           THEN UNCHANGED <<_CONVERTERS, _COMPLEX_CONVERTERS, cache, created>>
           ELSE IF is_complex_converter(target)
           THEN /\ IF isclass(target)
                   THEN /\ registered < MaxRegistered
                        /\ created < 1 + MaxRegistered
                        /\ _COMPLEX_CONVERTERS' =
                               Append(_COMPLEX_CONVERTERS, Inst(target.n, created + 1))
                        /\ created' = created + 1
                   ELSE /\ registered < MaxRegistered
                        /\ _COMPLEX_CONVERTERS' = Append(_COMPLEX_CONVERTERS, target)
                        /\ UNCHANGED created
                /\ cache' = _clear_converter_cache
                /\ UNCHANGED _CONVERTERS
           ELSE /\ registered + Cardinality(types) <= MaxRegistered
                /\ _CONVERTERS' = append_simple(_CONVERTERS, types, target)
                /\ cache' = _clear_converter_cache
                /\ UNCHANGED <<_COMPLEX_CONVERTERS, created>>

\* the newest instance of the class conv in the complex list, as the loop over
\* reversed(_COMPLEX_CONVERTERS) finds it; the list holds one when this is used
newest_instance(complex, conv) ==
    LET i == CHOOSE j \in 1..Len(complex) :
                 /\ complex[j].n = conv.n
                 /\ \A h \in (j + 1)..Len(complex) : complex[h].n # conv.n
    IN  complex[i]

\* the slip of ignoring the types that were given: the converter is removed from
\* every list that holds it
remove_simple_everywhere(simple, types, conv) ==
    [typ \in DOMAIN simple |->
        IF conv \in Range(simple[typ]) THEN RemoveFirst(simple[typ], conv) ELSE simple[typ]]

\* converters.remove(conv) for every typ of types that is a key, ignoring ValueError
remove_simple(simple, types, conv) ==
    [typ \in DOMAIN simple |->
        IF typ \in types /\ conv \in Range(simple[typ])
        THEN RemoveFirst(simple[typ], conv)
        ELSE simple[typ]]

\* unregister_converter(conv, *types)
unregister_converter(conv, types) ==
    LET raised == IF is_complex_converter(conv) /\ types # {} THEN "TypeError" ELSE ""
        call == [op |-> "unregister", raised |-> raised, cached |-> cache]
        found == IF isclass(conv)
                 THEN \E j \in 1..Len(_COMPLEX_CONVERTERS) : _COMPLEX_CONVERTERS[j].n = conv.n
                 ELSE conv \in Range(_COMPLEX_CONVERTERS)
        inst == IF isclass(conv) THEN newest_instance(_COMPLEX_CONVERTERS, conv) ELSE conv
    IN  /\ lastCall' = call
        /\ UNCHANGED <<heap, _sources>>
        /\ UNCHANGED created
        /\ IF raised # ""
           THEN UNCHANGED <<_CONVERTERS, _COMPLEX_CONVERTERS, cache>>
           ELSE IF is_complex_converter(conv)
           THEN IF ~found
                THEN UNCHANGED <<_CONVERTERS, _COMPLEX_CONVERTERS, cache>>
                ELSE /\ _COMPLEX_CONVERTERS' = RemoveFirst(_COMPLEX_CONVERTERS, inst)
                     /\ cache' = _clear_converter_cache
                     /\ UNCHANGED _CONVERTERS
           ELSE /\ _CONVERTERS' =
                       remove_simple(_CONVERTERS,
                                     IF types = {} THEN DOMAIN _CONVERTERS ELSE types, conv)
                /\ cache' = _clear_converter_cache
                /\ UNCHANGED _COMPLEX_CONVERTERS

\* a call of get_converters(target) by the client
GetConverters(target) ==
    LET r == lookup(target, cache)
    IN  /\ cache' = r.cache
        /\ lastCall' = [op |-> "get_converters"]
        /\ UNCHANGED <<_CONVERTERS, _COMPLEX_CONVERTERS, created, heap, _sources>>

\* a call of has_converter(target) by the client
HasConverter(target) ==
    LET r == lookup(target, cache)
    IN  /\ cache' = r.cache
        /\ lastCall' = [op |-> "has_converter"]
        /\ UNCHANGED <<_CONVERTERS, _COMPLEX_CONVERTERS, created, heap, _sources>>

Register == \E target \in Registrable, types \in SUBSET RegTypes :
                register_converter(target, types)

Unregister ==
    \E conv \in (Registrable \ {NotAConverter, BrokenComplex})
                 \cup {c \in Range(_COMPLEX_CONVERTERS) : c.n \in UserComplexClasses},
       types \in SUBSET RegTypes :
        unregister_converter(conv, types)

Get == \E target \in LookupTypes : GetConverters(target)

Has == \E target \in LookupTypes : HasConverter(target)

Init ==
    /\ _CONVERTERS = BuiltinSimple
    /\ _COMPLEX_CONVERTERS = BuiltinComplex
    /\ cache = <<>>
    /\ created = 1
    /\ heap = <<>>
    /\ _sources = <<>>
    /\ lastCall = [op |-> "import"]

NextRegistry == Register \/ Unregister \/ Get \/ Has

SpecRegistry == Init /\ [][NextRegistry]_vars

----------------------------------------------------------------------------
(* Python values.  A value is a record with its class in t.  A float holds *)
(* twice its value in v (1.5 is v = 3), or is NaN; a complex holds twice   *)
(* its real and imaginary parts.  A list, a tuple and a bytes hold the     *)
(* sequence of their items, a set the set of its items, a dict and the     *)
(* items view of a dict the sequence of their <<key, value>> pairs in      *)
(* insertion order.  An enum member holds its name, an instance of a class *)
(* of the client or of a template its identity.                            *)

PyNone == [t |-> "NoneType"]
PyBool(b) == [t |-> "bool", v |-> b]
PyInt(i) == [t |-> "int", v |-> i]
PyFloat(h) == [t |-> "float", nan |-> FALSE, v |-> h]
PyNaN == [t |-> "float", nan |-> TRUE, v |-> 0]
PyComplex(re, im) == [t |-> "complex", nan |-> FALSE, v |-> re, im |-> im]
PyComplexNaN == [t |-> "complex", nan |-> TRUE, v |-> 0, im |-> 0]
PyStr(s) == [t |-> "str", v |-> s]
PyBytes(s) == [t |-> "bytes", v |-> s]
PyList(s) == [t |-> "list", v |-> s]
PyTuple(s) == [t |-> "tuple", v |-> s]
PySet(S) == [t |-> "set", v |-> S]
PyDict(pairs) == [t |-> "dict", v |-> pairs]
PyItems(pairs) == [t |-> "dict_items", v |-> pairs]
Member(cls, name) == [t |-> cls, v |-> name]
Obj(cls, id) == [t |-> cls, id |-> id]

\* the members of MyEnum in declaration order, each with its value
\* (tests/konfi/test_converters.py:43)
MyEnumMembers ==
    <<[name |-> "A", value |-> PyStr("a")],
      [name |-> "BC", value |-> PyStr("test")],
      [name |-> "TRYHARD", value |-> PyInt(5)]>>

\* an enum of the client in which the name of one member is the value of
\* another and one value is a list:
\* class Color(enum.Enum): RED = "BLUE"; BLUE = "red"; RGB = [1, 5]
ColorMembers ==
    <<[name |-> "RED", value |-> PyStr("BLUE")],
      [name |-> "BLUE", value |-> PyStr("red")],
      [name |-> "RGB", value |-> PyList(<<PyInt(1), PyInt(5)>>)]>>

\* the members of the enum class
members(cls) ==
    IF cls = "MyEnum" THEN MyEnumMembers
    ELSE IF cls = "Color" THEN ColorMembers
    ELSE <<>>

NumberClasses == {"bool", "int", "float", "complex"}
SequenceClasses == {"list", "tuple", "str", "bytes"}
SizedClasses == SequenceClasses \cup {"set", "dict", "dict_items"}

\* isinstance(value, cls) for the class named cls
isinstance(value, cls) ==
    \/ value.t = cls
    \/ cls = "object"
    \/ cls = "int" /\ value.t = "bool"
    \/ cls = "Iterable" /\ value.t \in SizedClasses
    \/ cls = "Sequence" /\ value.t \in SequenceClasses
    \/ cls = "Mapping" /\ value.t = "dict"

\* the items of a set of <<item, hash>> records in the order of their hashes
RECURSIVE by_hash(_)
by_hash(S) ==
    IF S = {} THEN <<>>
    ELSE LET x == CHOOSE y \in S : \A z \in S : y.h <= z.h
         IN  <<x.item>> \o by_hash(S \ {x})

\* hash(value) of a number that is an integer; a set of such numbers below 8
\* keeps them in the slots of their hashes, so it iterates in that order
py_hash(value) ==
    CASE value.t = "bool" -> IF value.v THEN 1 ELSE 0
      [] value.t = "int" -> value.v
      [] value.t \in {"float", "complex"} -> value.v \div 2

\* the characters of the strings the client passes in
chars(s) ==
    CASE s = "" -> <<>>
      [] s \in {"5", "a", "A"} -> <<s>>
      [] s = "nan" -> <<"n", "a", "n">>
      [] s = "test" -> <<"t", "e", "s", "t">>
      [] s = "1.5" -> <<"1", ".", "5">>
      [] s = "RED" -> <<"R", "E", "D">>
      [] s = "Red" -> <<"R", "e", "d">>
      [] s = "red" -> <<"r", "e", "d">>
      [] s = "BLUE" -> <<"B", "L", "U", "E">>
      [] s = "blue" -> <<"b", "l", "u", "e">>
      [] s \in {"b", "c", "d", "e", "r", "x", "y"} -> <<s>>
      [] s = "sub" -> <<"s", "u", "b">>
      [] s = "outer" -> <<"o", "u", "t", "e", "r">>
      [] s = "inner" -> <<"i", "n", "n", "e", "r">>
      [] s = "tags" -> <<"t", "a", "g", "s">>

\* list(iter(value)) of an iterable value
iter(value) ==
    CASE value.t \in {"list", "tuple"} -> value.v
      [] value.t = "dict_items" -> [i \in 1..Len(value.v) |-> PyTuple(value.v[i])]
      [] value.t = "str" -> LET cs == chars(value.v) IN [i \in 1..Len(cs) |-> PyStr(cs[i])]
      [] value.t = "bytes" -> [i \in 1..Len(value.v) |-> PyInt(value.v[i])]
      [] value.t = "dict" -> [i \in 1..Len(value.v) |-> value.v[i][1]]
      [] value.t = "set" ->
             IF Cardinality(value.v) <= 1
             THEN IF value.v = {} THEN <<>> ELSE <<CHOOSE x \in value.v : TRUE>>
             ELSE by_hash({[item |-> x, h |-> py_hash(x)] : x \in value.v})

\* len(value) of a sized value
len(value) ==
    CASE value.t = "set" -> Cardinality(value.v)
      [] value.t = "str" -> Len(chars(value.v))
      [] OTHER -> Len(value.v)

\* bool(value)
truth(value) ==
    CASE value.t = "NoneType" -> FALSE
      [] value.t = "bool" -> value.v
      [] value.t = "int" -> value.v # 0
      [] value.t = "float" -> value.nan \/ value.v # 0
      [] value.t = "complex" -> value.nan \/ value.v # 0 \/ value.im # 0
      [] value.t = "str" -> value.v # ""
      [] value.t \in SizedClasses \ {"str"} -> len(value) > 0
      [] OTHER -> TRUE

\* a number as the complex it equals: <<twice re, twice im>>
as_complex(value) ==
    CASE value.t = "bool" -> <<IF value.v THEN 2 ELSE 0, 0>>
      [] value.t = "int" -> <<2 * value.v, 0>>
      [] value.t = "float" -> <<value.v, 0>>
      [] value.t = "complex" -> <<value.v, value.im>>

is_nan(value) == value.t \in {"float", "complex"} /\ value.nan

\* a == b of Python.  A container compares its items by identity first and by
\* == second; two items of the model that are the same value are taken to be
\* the same object, which holds as long as no conversion of an item makes a NaN.
RECURSIVE py_eq(_, _)
py_eq(a, b) ==
    LET item_eq(x, y) == x = y \/ py_eq(x, y)
        seq_eq(s, t) == Len(s) = Len(t) /\ \A i \in 1..Len(s) : item_eq(s[i], t[i])
        sub(S, T) == \A x \in S : \E y \in T : item_eq(x, y)
        pair_sub(p, q) ==
            \A x \in Range(p) : \E y \in Range(q) : item_eq(x[1], y[1]) /\ item_eq(x[2], y[2])
    IN  IF a.t \in NumberClasses /\ b.t \in NumberClasses
        THEN ~is_nan(a) /\ ~is_nan(b) /\ as_complex(a) = as_complex(b)
        ELSE IF a.t # b.t THEN FALSE
        ELSE IF a.t \in {"list", "tuple"} THEN seq_eq(a.v, b.v)
        ELSE IF a.t = "set" THEN sub(a.v, b.v) /\ sub(b.v, a.v)
        ELSE IF a.t \in {"dict", "dict_items"}
        THEN Len(a.v) = Len(b.v) /\ pair_sub(a.v, b.v)
        ELSE a = b

\* whether hash(value) works
RECURSIVE hashable(_)
hashable(value) ==
    CASE value.t \in {"list", "set", "dict", "dict_items"} -> FALSE
      [] value.t = "tuple" -> \A i \in 1..Len(value.v) : hashable(value.v[i])
      [] OTHER -> TRUE

----------------------------------------------------------------------------
(* typeinspect.has_type.  isinstance raises TypeError when its second      *)
(* argument is no class, so the result is "True", "False" or "TypeError".  *)

RECURSIVE has_type(_, _), any_has_type(_, _, _), all_have_type(_, _)

\* any(has_type(obj, typ) for typ in types[i..])
any_has_type(obj, types, i) ==
    IF i > Len(types) THEN "False"
    ELSE LET r == has_type(obj, types[i])
         IN  IF r = "False" THEN any_has_type(obj, types, i + 1) ELSE r

\* all(has_type(val, typ) for val, typ in pairs[i..])
all_have_type(pairs, i) ==
    IF i > Len(pairs) THEN "True"
    ELSE LET r == has_type(pairs[i][1], pairs[i][2])
         IN  IF r = "True" THEN all_have_type(pairs, i + 1) ELSE r

_has_union_type(obj, union) == any_has_type(obj, get_type_args(union), 1)

_has_tuple_type(obj, tup) ==
    LET r == resolve_tuple(tup)
    IN  IF ~isinstance(obj, "tuple") THEN "False"
        ELSE IF r.variadic
        THEN all_have_type([i \in 1..Len(obj.v) |-> <<obj.v[i], r.types[1]>>], 1)
        ELSE IF r.n # Len(obj.v) THEN "False"
        ELSE all_have_type([i \in 1..r.n |-> <<obj.v[i], r.types[i]>>], 1)

_has_generic_iterable_type(obj, iter_type) ==
    LET container == has_type(obj, Cls(get_origin(iter_type)))
        item_type == get_type_args(iter_type)[1]
        items == iter(obj)
    IN  IF container # "True" THEN container
        ELSE all_have_type([i \in 1..Len(items) |-> <<items[i], item_type>>], 1)

\* all(has_type(key, K) and has_type(value, V) for key, value in obj.items())
_has_generic_mapping_type(obj, map_type) ==
    LET container == has_type(obj, Cls(get_origin(map_type)))
        args == get_type_args(map_type)
        flat == [i \in 1..(2 * Len(obj.v)) |->
                    <<obj.v[(i + 1) \div 2][2 - (i % 2)], args[2 - (i % 2)]>>]
    IN  IF container # "True" THEN container ELSE all_have_type(flat, 1)

has_type(obj, typ) ==
    IF is_any(typ) THEN "True"
    ELSE IF is_union(typ) THEN _has_union_type(obj, typ)
    ELSE IF is_tuple(typ) THEN _has_tuple_type(obj, typ)
    ELSE IF is_generic_iterable(typ) THEN _has_generic_iterable_type(obj, typ)
    ELSE IF is_generic_mapping(typ) THEN _has_generic_mapping_type(obj, typ)
    ELSE IF typ.k # "class" THEN "TypeError"
    ELSE IF isinstance(obj, typ.n) THEN "True" ELSE "False"

----------------------------------------------------------------------------
(* The constructors of the built-in classes.                                *)

\* an exception: its class, the place that raised it, and the converter or the
\* key it names; a raised exception is the sequence of it and its __cause__s
Exc(type, msg, who) == [type |-> type, msg |-> msg, who |-> who]

\* what a call without side effects gives: a value or an exception
Ret(val) == [ok |-> TRUE, val |-> val]
Raise(type, msg) == [ok |-> FALSE, err |-> <<Exc(type, msg, "")>>]

\* the integers a numeral of the client may denote
Numerals == 0..9

\* text of a byte in a bytes literal: of a digit, and of a byte below 10
ByteChar(b) == IF b \in 48..57 THEN ToString(b - 48) ELSE "\\x0" \o ToString(b)

RECURSIVE join(_, _)
join(strs, sep) ==
    IF Len(strs) = 0 THEN ""
    ELSE IF Len(strs) = 1 THEN strs[1]
    ELSE strs[1] \o sep \o join(Tail(strs), sep)

\* repr of a float that is not NaN, given twice its value
float_repr(h) == ToString(h \div 2) \o (IF h % 2 = 0 THEN ".0" ELSE ".5")

\* a part of a complex as repr(complex) prints it: integral parts without ".0"
part_repr(h) == IF h % 2 = 0 THEN ToString(h \div 2) ELSE float_repr(h)

\* repr(value)
RECURSIVE py_repr(_)
py_repr(value) ==
    LET reprs(s) == [i \in 1..Len(s) |-> py_repr(s[i])]
        pair_reprs(p, sep, l, r) ==
            [i \in 1..Len(p) |-> l \o py_repr(p[i][1]) \o sep \o py_repr(p[i][2]) \o r]
    IN  CASE value.t = "NoneType" -> "None"
          [] value.t = "bool" -> IF value.v THEN "True" ELSE "False"
          [] value.t = "int" -> ToString(value.v)
          [] value.t = "float" -> IF value.nan THEN "nan" ELSE float_repr(value.v)
          [] value.t = "complex" ->
                 IF value.nan THEN "(nan+0j)"
                 ELSE IF value.v = 0 THEN part_repr(value.im) \o "j"
                 ELSE "(" \o part_repr(value.v) \o "+" \o part_repr(value.im) \o "j)"
          [] value.t = "str" -> "'" \o value.v \o "'"
          [] value.t = "bytes" ->
                 "b'" \o join([i \in 1..Len(value.v) |-> ByteChar(value.v[i])], "") \o "'"
          [] value.t = "list" -> "[" \o join(reprs(value.v), ", ") \o "]"
          [] value.t = "tuple" ->
                 IF Len(value.v) = 1 THEN "(" \o py_repr(value.v[1]) \o ",)"
                 ELSE "(" \o join(reprs(value.v), ", ") \o ")"
          [] value.t = "set" ->
                 IF value.v = {} THEN "set()"
                 ELSE "{" \o join(reprs(iter(value)), ", ") \o "}"
          [] value.t = "dict" -> "{" \o join(pair_reprs(value.v, ": ", "", ""), ", ") \o "}"
          [] value.t = "dict_items" ->
                 "dict_items([" \o join(pair_reprs(value.v, ", ", "(", ")"), ", ") \o "])"
          [] value.t \in EnumClasses ->
                 LET m == CHOOSE x \in Range(members(value.t)) : x.name = value.v
                 IN  "<" \o value.t \o "." \o value.v \o ": " \o py_repr(m.value) \o ">"
          [] OTHER -> "<" \o value.t \o " object at " \o ToString(value.id) \o ">"

\* str(value)
py_str(value) ==
    CASE value.t = "str" -> value.v
      [] value.t \in EnumClasses -> value.t \o "." \o value.v
      [] OTHER -> py_repr(value)

\* the text int() and float() parse: of a str itself, of a bytes its characters
numeral_text(value) ==
    IF value.t = "str" THEN value.v
    ELSE join([i \in 1..Len(value.v) |-> ByteChar(value.v[i])], "")

\* int(value)
py_int(value) ==
    CASE value.t = "bool" -> Ret(PyInt(IF value.v THEN 1 ELSE 0))
      [] value.t = "int" -> Ret(value)
      [] value.t = "float" ->
             IF value.nan THEN Raise("ValueError", "int") ELSE Ret(PyInt(value.v \div 2))
      [] value.t \in {"str", "bytes"} ->
             LET s == numeral_text(value)
             IN  IF \E i \in Numerals : ToString(i) = s
                 THEN Ret(PyInt(CHOOSE i \in Numerals : ToString(i) = s))
                 ELSE Raise("ValueError", "int")
      [] OTHER -> Raise("TypeError", "int")

\* float(value)
py_float(value) ==
    CASE value.t \in {"bool", "int"} -> Ret(PyFloat(as_complex(value)[1]))
      [] value.t = "float" -> Ret(value)
      [] value.t \in {"str", "bytes"} ->
             LET s == numeral_text(value)
                 halves == {h \in 0..(2 * 9 + 1) : s = float_repr(h) \/ s = part_repr(h)}
             IN  IF s = "nan" THEN Ret(PyNaN)
                 ELSE IF halves # {} THEN Ret(PyFloat(CHOOSE h \in halves : TRUE))
                 ELSE Raise("ValueError", "float")
      [] OTHER -> Raise("TypeError", "float")

\* complex(value)
py_complex(value) ==
    CASE value.t \in NumberClasses ->
             IF is_nan(value) THEN Ret(PyComplexNaN)
             ELSE IF value.t = "complex" THEN Ret(value)
             ELSE Ret(PyComplex(as_complex(value)[1], 0))
      [] value.t = "str" ->
             LET f == py_float(value)
             IN  IF ~f.ok THEN Raise("ValueError", "complex")
                 ELSE IF f.val.nan THEN Ret(PyComplexNaN)
                 ELSE Ret(PyComplex(f.val.v, 0))
      [] OTHER -> Raise("TypeError", "complex")

\* the items of s that no earlier item equals, in the order of s
RECURSIVE distinct_items(_, _)
distinct_items(s, acc) ==
    IF s = <<>> THEN acc
    ELSE distinct_items(Tail(s),
                        IF \E x \in Range(acc) : py_eq(x, Head(s)) THEN acc
                        ELSE Append(acc, Head(s)))

\* d[k] = v on the pairs of a dict: an equal key keeps its place and its key
dict_setitem(pairs, k, v) ==
    IF \E i \in 1..Len(pairs) : py_eq(pairs[i][1], k)
    THEN [i \in 1..Len(pairs) |-> IF py_eq(pairs[i][1], k) THEN <<pairs[i][1], v>> ELSE pairs[i]]
    ELSE Append(pairs, <<k, v>>)

RECURSIVE dict_of(_, _)
dict_of(pairs, acc) ==
    IF pairs = <<>> THEN acc
    ELSE dict_of(Tail(pairs), dict_setitem(acc, Head(pairs)[1], Head(pairs)[2]))

\* dict(enumerate(value)) of a sequence
enumerate_dict(value) ==
    LET items == iter(value) IN PyDict([i \in 1..Len(items) |-> <<PyInt(i - 1), items[i]>>])

\* bytes(value)
py_bytes(value) ==
    CASE value.t \in {"bool", "int"} ->
             LET n == as_complex(value)[1] \div 2
             IN  IF n < 0 THEN Raise("ValueError", "bytes") ELSE Ret(PyBytes([i \in 1..n |-> 0]))
      [] value.t = "bytes" -> Ret(value)
      [] value.t \in SizedClasses \ {"str", "bytes"} ->
             LET items == iter(value)
                 byte(x) == as_complex(x)[1] \div 2
             IN  IF \E i \in 1..Len(items) : ~isinstance(items[i], "int")
                 THEN Raise("TypeError", "bytes")
                 ELSE IF \E i \in 1..Len(items) : byte(items[i]) \notin 0..255
                 THEN Raise("ValueError", "bytes")
                 ELSE Ret(PyBytes([i \in 1..Len(items) |-> byte(items[i])]))
      [] OTHER -> Raise("TypeError", "bytes")

\* list(value), tuple(value), set(value)
py_sequence(cls, value) ==
    IF ~isinstance(value, "Iterable") THEN Raise("TypeError", cls)
    ELSE IF cls = "list" THEN Ret(PyList(iter(value)))
    ELSE IF cls = "tuple" THEN Ret(PyTuple(iter(value)))
    ELSE IF \E x \in Range(iter(value)) : ~hashable(x) THEN Raise("TypeError", cls)
    ELSE Ret(PySet(Range(distinct_items(iter(value), <<>>))))

\* dict(value): of a mapping, or of an iterable of pairs
py_dict(value) ==
    LET items == iter(value)
        is_pair(x) == Len(iter(x)) = 2
    IN  IF value.t = "dict" THEN Ret(value)
        ELSE IF ~isinstance(value, "Iterable") THEN Raise("TypeError", "dict")
        ELSE IF \E x \in Range(items) : ~isinstance(x, "Iterable") THEN Raise("TypeError", "dict")
        ELSE IF \E x \in Range(items) : ~is_pair(x) THEN Raise("ValueError", "dict")
        ELSE IF \E x \in Range(items) : ~hashable(iter(x)[1]) THEN Raise("TypeError", "dict")
        ELSE Ret(PyDict(dict_of([i \in 1..Len(items) |-> iter(items[i])], <<>>)))

\* s.lower() of the strings the client passes in and of the member names
lower(s) ==
    CASE s = "A" -> "a"
      [] s = "BC" -> "bc"
      [] s = "TRYHARD" -> "tryhard"
      [] s \in {"RED", "Red"} -> "red"
      [] s = "BLUE" -> "blue"
      [] s = "RGB" -> "rgb"
      [] OTHER -> s

\* the first of the members that satisfies test, as a one-element sequence
first_member(cls, test(_)) ==
    LET ms == SelectSeq(members(cls), test)
    IN  IF ms = <<>> THEN <<>> ELSE <<Member(cls, Head(ms).name)>>

\* cls(value) of an enum class: the member with that value, or a ValueError
enum_call(cls, value) ==
    LET m == first_member(cls, LAMBDA x : py_eq(x.value, value))
    IN  IF value.t = cls THEN Ret(value)
        ELSE IF m = <<>> THEN Raise("ValueError", cls)
        ELSE Ret(m[1])

\* target(value) for the class named cls
construct(cls, value) ==
    CASE cls = "bool" -> Ret(PyBool(truth(value)))
      [] cls = "int" -> py_int(value)
      [] cls = "float" -> py_float(value)
      [] cls = "complex" -> py_complex(value)
      [] cls = "str" -> Ret(PyStr(py_str(value)))
      [] cls = "bytes" -> py_bytes(value)
      [] cls \in {"list", "tuple", "set"} -> py_sequence(cls, value)
      [] cls = "dict" -> py_dict(value)
      [] cls \in EnumClasses -> enum_call(cls, value)
      [] OTHER -> Raise("TypeError", cls)

\* EnumConverter.convert(value, target)
enum_convert(value, cls) ==
    LET by_name == first_member(cls, LAMBDA x : value.t = "str" /\ x.name = value.v)
        by_value == enum_call(cls, value)
        by_lower == first_member(cls, LAMBDA x :
                        \/ lower(value.v) = lower(x.name)
                        \/ x.value.t = "str" /\ lower(x.value.v) = lower(value.v))
    IN  IF ~hashable(value) THEN Raise("TypeError", "EnumConverter")
        ELSE IF by_name # <<>> THEN Ret(by_name[1])
        ELSE IF by_value.ok THEN by_value
        ELSE IF value.t = "str" /\ by_lower # <<>> THEN Ret(by_lower[1])
        ELSE [ok |-> FALSE, err |-> <<Exc("ConversionError", "isn't in enum", cls)>>]

\* the slip of taking None only
none_kept(value) ==
    IF value = PyNone THEN Ret(PyNone) ELSE Raise("ConversionError", "can't convert to None")

\* none_converter(value)
none_converter(value) == Ret(PyNone)

\* the slip of wrapping every value, iterable or not, in a tuple
always_wrapped(value) == Ret(PyTuple(<<value>>))

\* iterable_converter(value)
iterable_converter(value) ==
    IF isinstance(value, "Mapping") THEN Ret(PyItems(value.v))
    ELSE IF isinstance(value, "Iterable") /\ ~isinstance(value, "str") THEN Ret(value)
    ELSE Ret(PyTuple(<<value>>))

\* mapping_converter(value)
mapping_converter(value) ==
    IF isinstance(value, "Mapping") THEN Ret(value)
    ELSE IF isinstance(value, "Sequence") THEN Ret(enumerate_dict(value))
    ELSE [ok |-> FALSE, err |-> <<Exc("ConversionError", "can't convert to a Mapping", "")>>]

----------------------------------------------------------------------------
(* The conversion engine.  A call that may look converters up, or create   *)
(* objects, takes the state st = [cache, heap] as it finds it and returns   *)
(* it as it leaves it, next to the value it returns or the exception it    *)
(* raises (err: the exception followed by its __cause__s).                  *)

Ok(val, st) == [ok |-> TRUE, val |-> val, err |-> <<>>, st |-> st]
Fail(err, st) == [ok |-> FALSE, val |-> PyNone, err |-> err, st |-> st]
lift(r, st) == IF r.ok THEN Ok(r.val, st) ELSE Fail(r.err, st)

\* what convert_value gives: also the converters it called, in order, and
\* whether it came to consult has_type and to call the constructor
Done(r, calls, checked, ctor) ==
    [ok |-> r.ok, val |-> r.val, err |-> r.err, st |-> r.st,
     calls |-> calls, checked |-> checked, ctor |-> ctor]

ConversionError(msg, who) == Exc("ConversionError", msg, who)

is_conversion_error(err) == Head(err).type = "ConversionError"

\* typing.Iterable and typing.Mapping, the base types of the container converters
TypingIterable == Alias("Iterable", <<TypeVarOf("T_co")>>)
TypingMapping == Alias("Mapping", <<TypeVarOf("KT"), TypeVarOf("VT_co")>>)

\* the class the container converter named n makes
container_class(n) ==
    CASE n = "to_tuple" -> "tuple" [] n = "to_list" -> "list"
      [] n = "to_set" -> "set" [] n = "to_dict" -> "dict"

\* what the converters of the client do: return an object of their own, raise
\* a ConversionError, or raise another exception
Made(conv, value) == [t |-> "Made", by |-> conv.n, from |-> value]

user_convert(conv, value) ==
    CASE conv.n \in {"func_conv", "ClassConv", "Complex"} -> Ret(Made(conv, value))
      [] conv.n = "func_fail" ->
             [ok |-> FALSE, err |-> <<ConversionError("raised by the converter", conv.n)>>]
      [] conv.n = "func_raise" -> Raise("ValueError", conv.n)

\* has_type is never consulted: the slip of dropping the check of converter.py:295
never_has_type(value, target) == "False"

\* typeinspect.has_type(value, target) as convert_value consults it after the loop
already_has_type(value, target) == has_type(value, target)

\* the slip of taking the constructor whatever the converters did
always_none(last) == TRUE

\* last_exception is None
no_converter_failed(last) == last = <<>>

\* the fallbacks of convert_value after the loop over the converters:
\* last is the last exception of the loop, <<>> for None
fallback(value, target, st, last, calls) ==
    LET h == already_has_type(value, target)
        c == construct(target.n, value)
    IN  IF h = "True" THEN Done(Ok(value, st), calls, TRUE, FALSE)
        ELSE IF h = "TypeError"
        THEN Done(Fail(<<Exc("TypeError", "isinstance", "")>>, st), calls, TRUE, FALSE)
        ELSE IF ~no_converter_failed(last) THEN Done(Fail(last, st), calls, TRUE, FALSE)
        ELSE IF target.k # "class"
        THEN Done(Fail(<<ConversionError("No converter found", "")>>, st),
                  calls, TRUE, FALSE)
        ELSE IF c.ok THEN Done(Ok(c.val, st), calls, TRUE, TRUE)
        ELSE Done(Fail(<<ConversionError("No converter found and couldn't use", target.n)>>
                           \o c.err, st),
                  calls, TRUE, TRUE)

\* the slip of leaving the new exception with the cause it came with
keep_own_cause(e, last) == e

\* e.__cause__ = last_exception if there is one; the exception that is kept
chain_cause(e, last) == IF last = <<>> THEN e ELSE <<Head(e)>> \o last

RECURSIVE convert_value(_, _, _, _), try_converters(_, _, _, _, _, _, _, _),
          _call_converter(_, _, _, _), convert(_, _, _, _), convert_each(_, _, _, _),
          union_try(_, _, _, _, _), mapping_items(_, _, _, _, _, _),
          load_items(_, _, _, _, _, _, _), complete_fields(_, _, _, _, _, _)

\* the value or the exception of a call of convert_value, and the state it left
plain(r) == IF r.ok THEN Ok(r.val, r.st) ELSE Fail(r.err, r.st)

\* convert_each after the conversion r of pairs[i]
each_converted(pairs, i, acc, r) ==
    IF r.ok THEN convert_each(pairs, i + 1, r.st, Append(acc, r.val))
    ELSE [ok |-> FALSE, vals |-> acc, err |-> r.err, st |-> r.st, at |-> i]

\* convert_value(val, typ) for every <<val, typ>> of pairs[i..], in order, up to
\* the first that raises; at is its index
convert_each(pairs, i, st, acc) ==
    IF i > Len(pairs) THEN [ok |-> TRUE, vals |-> acc, err |-> <<>>, st |-> st, at |-> 0]
    ELSE each_converted(pairs, i, acc, convert_value(pairs[i][1], pairs[i][2], {}, st))

\* the slip of going on after an alternative converted: the last one wins
union_tried_on(value, types, i, r) ==
    IF r.ok
    THEN IF union_try(value, types, i + 1, r.st, <<>>).ok
         THEN union_try(value, types, i + 1, r.st, <<>>)
         ELSE Ok(r.val, r.st)
    ELSE IF is_conversion_error(r.err) THEN union_try(value, types, i + 1, r.st, r.err)
    ELSE Fail(r.err, r.st)

\* union_try after the conversion r to types[i]
union_tried(value, types, i, r) ==
    IF r.ok THEN Ok(r.val, r.st)
    ELSE IF is_conversion_error(r.err) THEN union_try(value, types, i + 1, r.st, r.err)
    ELSE Fail(r.err, r.st)

\* the loop of UnionConverter.convert over types[i..]
union_try(value, types, i, st, last) ==
    IF i > Len(types) THEN Fail(last, st)
    ELSE union_tried(value, types, i, convert_value(value, types[i], {}, st))

\* UnionConverter.convert(value, target)
union_convert(value, target, st) ==
    LET h == has_type(value, target)
    IN  IF h = "True" THEN Ok(value, st)
        ELSE IF h = "TypeError" THEN Fail(<<Exc("TypeError", "isinstance", "")>>, st)
        ELSE union_try(value, get_type_args(target), 1, st, <<>>)

\* the ConversionError MappingConverter raises from the failure r at the key
item_failed(key, r, msg) ==
    IF is_conversion_error(r.err)
    THEN Fail(<<ConversionError(msg, py_repr(key))>> \o r.err, r.st)
    ELSE Fail(r.err, r.st)

\* mapping_items after the conversions k and v of the key and the value of pairs[i]
value_converted(pairs, i, key_type, value_type, final_map, k, v) ==
    IF ~v.ok THEN item_failed(pairs[i][1], v, "couldn't convert value of")
    ELSE IF ~hashable(k.val) THEN Fail(<<Exc("TypeError", "unhashable", "")>>, v.st)
    ELSE mapping_items(pairs, i + 1, key_type, value_type, v.st,
                       dict_setitem(final_map, k.val, v.val))

key_converted(pairs, i, key_type, value_type, final_map, k) ==
    IF ~k.ok THEN item_failed(pairs[i][1], k, "couldn't convert key")
    ELSE value_converted(pairs, i, key_type, value_type, final_map, k,
                         convert_value(pairs[i][2], value_type, {}, k.st))

\* the loop of MappingConverter.convert over the items pairs[i..] of the mapping
mapping_items(pairs, i, key_type, value_type, st, final_map) ==
    IF i > Len(pairs) THEN Ok(PyDict(final_map), st)
    ELSE key_converted(pairs, i, key_type, value_type, final_map,
                       convert_value(pairs[i][1], key_type, {}, st))

\* the converters of tuple, list, set and dict, given the conversion b of the
\* value to Iterable or Mapping
to_container(cls, b) ==
    IF ~b.ok THEN Fail(b.err, b.st)
    ELSE IF isinstance(b.val, cls) THEN Ok(b.val, b.st)
    ELSE lift(construct(cls, b.val), b.st)

\* the item types of the tuple type tup for a tuple of n items
tuple_types(tup, n) == [i \in 1..n |-> IF tup.variadic THEN tup.types[1] ELSE tup.types[i]]

tuple_made(e) == IF e.ok THEN Ok(PyTuple(e.vals), e.st) ELSE Fail(e.err, e.st)

\* the slip of leaving the lengths to zip: the longer of the two is cut
tuple_convert_zipped(tup, values) ==
    IF ~values.ok THEN Fail(values.err, values.st)
    ELSE tuple_made(convert_each(
             [i \in 1..(IF tup.variadic \/ Len(values.val.v) < tup.n
                        THEN Len(values.val.v) ELSE tup.n) |->
                 <<values.val.v[i], tuple_types(tup, Len(values.val.v))[i]>>],
             1, values.st, <<>>))

\* TupleConverter.convert, given the conversion values of the value to list
tuple_convert(tup, values) ==
    IF ~values.ok THEN Fail(values.err, values.st)
    ELSE IF ~tup.variadic /\ tup.n # Len(values.val.v)
    THEN Fail(<<ConversionError("lengths don't match", "")>>, values.st)
    ELSE tuple_made(convert_each(
             [i \in 1..Len(values.val.v) |->
                 <<values.val.v[i], tuple_types(tup, Len(values.val.v))[i]>>],
             1, values.st, <<>>))

\* the last step of IterableConverter and MappingConverter: the container type
\* of the target, without the converter itself
final_container(conv, target, value, st) ==
    plain(convert_value(value, Cls(get_origin(target)), {conv}, st))

iterable_made(conv, target, e) ==
    IF e.ok THEN final_container(conv, target, PyList(e.vals), e.st)
    ELSE IF is_conversion_error(e.err)
    THEN Fail(<<ConversionError("couldn't convert value at index", ToString(e.at - 1))>>
                  \o e.err, e.st)
    ELSE Fail(e.err, e.st)

\* IterableConverter.convert, given the conversion it of the value to Iterable
iterable_convert(conv, target, it) ==
    IF ~it.ok THEN Fail(it.err, it.st)
    ELSE iterable_made(conv, target,
             convert_each([i \in 1..Len(iter(it.val)) |->
                              <<iter(it.val)[i], get_type_args(target)[1]>>],
                          1, it.st, <<>>))

mapping_made(conv, target, final_map) ==
    IF ~final_map.ok THEN final_map
    ELSE final_container(conv, target, final_map.val, final_map.st)

\* MappingConverter.convert, given the conversion m of the value to Mapping
mapping_convert(conv, target, m) ==
    IF ~m.ok THEN Fail(m.err, m.st)
    ELSE mapping_made(conv, target,
             mapping_items(m.val.v, 1, get_type_args(target)[1], get_type_args(target)[2],
                           m.st, <<>>))

----------------------------------------------------------------------------
(* Templates and their objects.  The heap holds the objects made from      *)
(* templates, each with its class and the attributes set on the instance;  *)
(* a template object as a value is Obj(cls, id) with id its place in the   *)
(* heap.  getattr falls back to the attributes of the class, where the     *)
(* template decorator leaves the default values.                            *)

\* a field of a template: default, factory and converter are <<>> when not given
Field(attribute, key, value_type, default, factory, converter) ==
    [attribute |-> attribute, key |-> key, value_type |-> value_type,
     default |-> default, factory |-> factory, converter |-> converter]

\* the instance of Sub the client makes as the default of Holder.sub: the
\* first object of the heap of a client that imports Holder
default_sub == Obj("Sub", 1)

\* the templates of the client
\*   @template() class Sub:   x: Optional[int];  y: str = ""
\*   @template() class Conf:  a: int;  b: str = "a";  sub: Sub
\*   @template() class Inner: b: int;  c: int
\*   @template() class Outer: inner: Inner = field(key="sub");  d: int;
\*                            e: Optional[int]
\*   @template() class Root:  outer: Outer;  r: int = 0
\*   @template() class Opt:   sub: Sub = field(factory=Sub);
\*                            inner: Inner = field(factory=Inner);
\*                            tags: list = field(factory=list)
\*   default_sub = Sub()
\*   @template() class Holder: a: int = 0;  sub: Sub = default_sub
fields(cls) ==
    CASE cls = "Conf" ->
             <<Field("a", "a", Cls("int"), <<>>, <<>>, <<>>),
               Field("b", "b", Cls("str"), <<PyStr("a")>>, <<>>, <<>>),
               Field("sub", "sub", Cls("Sub"), <<>>, <<>>, <<>>)>>
      [] cls = "Sub" ->
             <<Field("x", "x", Alias("Union", <<Cls("int"), NoneType>>), <<>>, <<>>, <<>>),
               Field("y", "y", Cls("str"), <<PyStr("")>>, <<>>, <<>>)>>
      [] cls = "Inner" ->
             <<Field("b", "b", Cls("int"), <<>>, <<>>, <<>>),
               Field("c", "c", Cls("int"), <<>>, <<>>, <<>>)>>
      [] cls = "Outer" ->
             <<Field("inner", "sub", Cls("Inner"), <<>>, <<>>, <<>>),
               Field("d", "d", Cls("int"), <<>>, <<>>, <<>>),
               Field("e", "e", Alias("Union", <<Cls("int"), NoneType>>), <<>>, <<>>, <<>>)>>
      [] cls = "Root" ->
             <<Field("outer", "outer", Cls("Outer"), <<>>, <<>>, <<>>),
               Field("r", "r", Cls("int"), <<PyInt(0)>>, <<>>, <<>>)>>
      [] cls = "Opt" ->
             <<Field("sub", "sub", Cls("Sub"), <<>>, <<"Sub">>, <<>>),
               Field("inner", "inner", Cls("Inner"), <<>>, <<"Inner">>, <<>>),
               Field("tags", "tags", Cls("list"), <<>>, <<"list">>, <<>>)>>
      [] cls = "Holder" ->
             <<Field("a", "a", Cls("int"), <<PyInt(0)>>, <<>>, <<>>),
               Field("sub", "sub", Cls("Sub"), <<default_sub>>, <<>>, <<>>)>>
      [] OTHER -> <<>>

\* the heap once the module of Holder is imported: default_sub is in it
HolderHeap == <<[cls |-> "Sub", attrs |-> <<>>]>>

\* the attributes _make_fields leaves on the class: the default values
class_attrs(cls) ==
    LET with_default == SelectSeq(fields(cls), LAMBDA f : f.default # <<>>)
    IN  [a \in {with_default[i].attribute : i \in 1..Len(with_default)} |->
            (CHOOSE f \in Range(with_default) : f.attribute = a).default[1]]

RECURSIVE is_optional(_)
is_optional(typ) ==
    \/ typ = NoneType
    \/ is_union(typ) /\ \E t \in Range(get_type_args(typ)) : is_optional(t)

\* object.__new__(templ)
create_object_from_template(cls, st) ==
    [ref |-> Obj(cls, Len(st.heap) + 1),
     st |-> [st EXCEPT !.heap = Append(@, [cls |-> cls, attrs |-> <<>>])]]

is_object(st, obj) == "id" \in DOMAIN obj /\ obj.id \in DOMAIN st.heap

\* hasattr(obj, attr), getattr(obj, attr) and setattr(obj, attr, val)
hasattr(st, obj, attr) ==
    /\ is_object(st, obj)
    /\ attr \in DOMAIN st.heap[obj.id].attrs \cup DOMAIN class_attrs(obj.t)

getattr(st, obj, attr) ==
    IF attr \in DOMAIN st.heap[obj.id].attrs THEN st.heap[obj.id].attrs[attr]
    ELSE class_attrs(obj.t)[attr]

\* the slip of leaving an attribute that is set as it is
setattr_once(st, obj, attr, val) ==
    IF attr \in DOMAIN st.heap[obj.id].attrs THEN st
    ELSE [st EXCEPT !.heap[obj.id].attrs = [a \in DOMAIN @ \cup {attr} |->
                                              IF a = attr THEN val ELSE @[a]]]

setattr(st, obj, attr, val) ==
    [st EXCEPT !.heap[obj.id].attrs =
        [a \in DOMAIN @ \cup {attr} |-> IF a = attr THEN val ELSE @[a]]]

----------------------------------------------------------------------------
(* source.py: the exceptions with a path, and the loading of mappings.      *)

PathError(path, msg) ==
    [type |-> "PathError", msg |-> msg, who |-> "", path |-> path, errors |-> <<>>]
FieldError(path, field, msg) ==
    [type |-> "FieldError", msg |-> msg, who |-> field.attribute, path |-> path,
     errors |-> <<>>]
MultiPathError(path, errors, msg) ==
    [type |-> "MultiPathError", msg |-> msg, who |-> "", path |-> path, errors |-> errors]

\* isinstance(e, PathError)
is_path_error(err) == Head(err).type \in {"PathError", "FieldError", "MultiPathError"}

\* e.backtrace_path(part)
backtrace_path(err, part) == <<[Head(err) EXCEPT !.path = <<part>> \o @]>> \o Tail(err)

\* the end of load_fields_values and of ensure_complete: nothing, the one
\* error, or a MultiPathError of all of them
raise_collected(errs, st, multi) ==
    IF errs = <<>> THEN Ok(PyNone, st)
    ELSE IF Len(errs) = 1 THEN Fail(errs[1], st)
    ELSE Fail(<<multi>>, st)

\* the slip of recording the failure of the conversion on the attribute
field_marked(obj, field, r) ==
    IF r.ok THEN Ok(PyNone, setattr(r.st, obj, field.attribute, r.val))
    ELSE IF is_conversion_error(r.err)
    THEN Fail(<<FieldError(<<field.key>>, field, Head(r.err).msg)>> \o r.err,
              setattr(r.st, obj, field.attribute, PyNone))
    ELSE Fail(r.err, r.st)

\* load_field_value after the conversion r of the value
field_converted(obj, field, r) ==
    IF r.ok THEN Ok(PyNone, setattr(r.st, obj, field.attribute, r.val))
    ELSE IF is_conversion_error(r.err)
    THEN Fail(<<FieldError(<<field.key>>, field, Head(r.err).msg)>> \o r.err, r.st)
    ELSE Fail(r.err, r.st)

load_field_value(obj, field, value, st) ==
    field_converted(obj, field,
        IF field.converter = <<>> THEN plain(convert_value(value, field.value_type, {}, st))
        ELSE _call_converter(field.converter[1], value, field.value_type, st))

\* _get_sub_obj after the creation c of the blank object
sub_created(obj, field, c) ==
    [ref |-> c.ref, st |-> setattr(c.st, obj, field.attribute, c.ref)]

\* the slip of making a blank object whether or not there is one
blank_sub_obj(obj, field, st) ==
    sub_created(obj, field, create_object_from_template(field.value_type.n, st))

\* _get_sub_obj(obj, field)
_get_sub_obj(obj, field, st) ==
    IF hasattr(st, obj, field.attribute)
    THEN [ref |-> getattr(st, obj, field.attribute), st |-> st]
    ELSE sub_created(obj, field, create_object_from_template(field.value_type.n, st))

\* _field_by_keys.get(key): of the fields with that key the last one
field_by_key(fs, key) ==
    LET with_key == SelectSeq(fs, LAMBDA f : key.t = "str" /\ f.key = key.v)
    IN  IF with_key = <<>> THEN <<>> ELSE <<with_key[Len(with_key)]>>

\* load_fields_values(sub_obj, konfi.fields(sub_obj), value)
load_sub(value, sub) == load_items(sub.ref, fields(sub.ref.t), value.v, 1, FALSE, sub.st, <<>>)

\* the loader of one item of the mapping
load_item(obj, field, value, st) ==
    IF is_template_like(field.value_type) /\ isinstance(value, "Mapping")
    THEN load_sub(value, _get_sub_obj(obj, field, st))
    ELSE load_field_value(obj, field, value, st)

\* load_items after the loader of items[i] gave r
item_loaded(obj, fs, items, i, ignore_unknown, errs, field, r) ==
    load_items(obj, fs, items, i + 1, ignore_unknown, r.st,
               IF r.ok THEN errs
               ELSE IF is_path_error(r.err) THEN Append(errs, r.err)
               ELSE Append(errs, <<FieldError(<<py_str(items[i][1])>>, field,
                                              Head(r.err).msg)>> \o r.err))

\* the loop of load_fields_values over the items items[i..] of the mapping
load_items(obj, fs, items, i, ignore_unknown, st, errs) ==
    IF i > Len(items) THEN raise_collected(errs, st, MultiPathError(<<>>, errs, ""))
    ELSE IF field_by_key(fs, items[i][1]) = <<>>
    THEN IF ignore_unknown THEN load_items(obj, fs, items, i + 1, ignore_unknown, st, errs)
         ELSE Fail(<<PathError(<<py_str(items[i][1])>>, "unexpected config key")>>, st)
    ELSE item_loaded(obj, fs, items, i, ignore_unknown, errs,
                     field_by_key(fs, items[i][1])[1],
                     load_item(obj, field_by_key(fs, items[i][1])[1], items[i][2], st))

\* load_fields_values(obj, fields, mapping, ignore_unknown=...); mapping.items()
\* is an AttributeError for a value that is no mapping
load_fields_values(obj, fs, mapping, ignore_unknown, st) ==
    IF ~isinstance(mapping, "Mapping") THEN Fail(<<Exc("AttributeError", "items", "")>>, st)
    ELSE load_items(obj, fs, mapping.v, 1, ignore_unknown, st, <<>>)

\* the factories of default values the templates name
call_factory(name, st) ==
    IF name \in TemplateClasses
    THEN LET c == create_object_from_template(name, st) IN [val |-> c.ref, st |-> c.st]
    ELSE [val |-> PyList(<<>>), st |-> st]

\* UnboundField.required and Field.required
unbound_required(f) == f.default = <<>> /\ f.factory = <<>>

required(f) == unbound_required(f) /\ ~is_optional(f.value_type)

\* Field.get_default(): ok is false for NoDefaultValue
get_default(f, st) ==
    IF f.default # <<>> THEN [ok |-> TRUE, val |-> f.default[1], st |-> st]
    ELSE IF f.factory # <<>>
    THEN [ok |-> TRUE, val |-> call_factory(f.factory[1], st).val,
          st |-> call_factory(f.factory[1], st).st]
    ELSE IF is_optional(f.value_type) THEN [ok |-> TRUE, val |-> PyNone, st |-> st]
    ELSE [ok |-> FALSE, val |-> PyNone, st |-> st]

\* the slip of raising the first missing value at once
missing_raised(obj, templ, fs, i, errs, d) ==
    IF d.ok
    THEN complete_fields(obj, templ, fs, i + 1, setattr(d.st, obj, fs[i].attribute, d.val),
                         errs)
    ELSE Fail(<<FieldError(<<fs[i].key>>, fs[i], "required value missing")>>, d.st)

\* complete_fields after get_default of fs[i] gave d
defaulted(obj, templ, fs, i, errs, d) ==
    IF d.ok
    THEN complete_fields(obj, templ, fs, i + 1, setattr(d.st, obj, fs[i].attribute, d.val),
                         errs)
    ELSE complete_fields(obj, templ, fs, i + 1, d.st,
             Append(errs, <<FieldError(<<fs[i].key>>, fs[i], "required value missing")>>))

\* complete_fields after ensure_complete of the nested object of fs[i] gave r
sub_completed(obj, templ, fs, i, errs, r) ==
    IF r.ok THEN complete_fields(obj, templ, fs, i + 1, r.st, errs)
    ELSE IF is_path_error(r.err)
    THEN complete_fields(obj, templ, fs, i + 1, r.st,
                         Append(errs, backtrace_path(r.err, fs[i].key)))
    ELSE Fail(r.err, r.st)

\* the loop of ensure_complete(obj, templ) over the fields fs[i..]
complete_fields(obj, templ, fs, i, st, errs) ==
    IF i > Len(fs)
    THEN raise_collected(errs, st, MultiPathError(<<>>, errs, templ \o " is incomplete"))
    ELSE IF ~hasattr(st, obj, fs[i].attribute)
    THEN defaulted(obj, templ, fs, i, errs, get_default(fs[i], st))
    ELSE IF is_template_like(fs[i].value_type)
    THEN sub_completed(obj, templ, fs, i, errs,
             complete_fields(getattr(st, obj, fs[i].attribute), fs[i].value_type.n,
                             fields(fs[i].value_type.n), 1, st, <<>>))
    ELSE complete_fields(obj, templ, fs, i + 1, st, errs)

ensure_complete(obj, templ, st) == complete_fields(obj, templ, fields(templ), 1, st, <<>>)

\* TemplateConverter.convert after the object was loaded and completed
template_completed(obj, r) == IF r.ok THEN Ok(obj, r.st) ELSE Fail(r.err, r.st)

template_loaded(obj, target, r) ==
    IF ~r.ok THEN Fail(r.err, r.st)
    ELSE template_completed(obj, ensure_complete(obj, target.n, r.st))

template_created(target, value_map, c) ==
    template_loaded(c.ref, target,
                    load_fields_values(c.ref, fields(target.n), value_map, FALSE, c.st))

\* TemplateConverter.convert, given the conversion m of the value to Mapping
template_convert(target, m) ==
    IF ~m.ok THEN Fail(m.err, m.st)
    ELSE template_created(target, m.val, create_object_from_template(target.n, m.st))

----------------------------------------------------------------------------
(* converter.py: convert_value and the calls of the converters.             *)

\* conv.convert(value, target) of a converter object, conv(value) of a function
convert(conv, value, target, st) ==
    CASE conv.n = "bool" -> Ok(PyBool(truth(value)), st)
      [] conv.n \in {"int", "float", "complex", "str", "bytes"} ->
             lift(construct(conv.n, value), st)
      [] conv.n \in {"to_tuple", "to_list", "to_set"} ->
             to_container(container_class(conv.n),
                          plain(convert_value(value, TypingIterable, {}, st)))
      [] conv.n = "to_dict" ->
             to_container("dict", plain(convert_value(value, TypingMapping, {}, st)))
      [] conv.n = "none_converter" -> lift(none_converter(value), st)
      [] conv.n = "any_convert" -> Ok(value, st)
      [] conv.n = "iterable_converter" -> lift(iterable_converter(value), st)
      [] conv.n = "mapping_converter" -> lift(mapping_converter(value), st)
      [] conv.n = "UnionConverter" -> union_convert(value, target, st)
      [] conv.n = "TupleConverter" ->
             tuple_convert(resolve_tuple(target), convert_value(value, Cls("list"), {}, st))
      [] conv.n = "IterableConverter" ->
             iterable_convert(conv, target, convert_value(value, TypingIterable, {}, st))
      [] conv.n = "MappingConverter" ->
             mapping_convert(conv, target, convert_value(value, TypingMapping, {}, st))
      [] conv.n = "TemplateConverter" ->
             template_convert(target, convert_value(value, TypingMapping, {}, st))
      [] conv.n = "EnumConverter" -> lift(enum_convert(value, target.n), st)
      [] OTHER -> lift(user_convert(conv, value), st)

\* _call_converter after the converter gave r
converter_called(conv, r) ==
    IF r.ok \/ is_conversion_error(r.err) THEN r
    ELSE Fail(<<ConversionError("Couldn't convert", conv.n)>> \o r.err, r.st)

\* _call_converter(conv, value, target)
_call_converter(conv, value, target, st) ==
    IF isclass(conv) /\ conv.n = "BrokenConv"
    THEN Fail(<<ConversionError("Couldn't create an instance of the converter", conv.n),
                Exc("Exception", "__init__", conv.n)>>, st)
    ELSE converter_called(conv, convert(conv, value, target, st))

\* try_converters after the converter convs[i] gave r
converter_tried(convs, i, value, target, exclude, last, calls, r) ==
    IF r.ok \/ ~is_conversion_error(r.err)
    THEN Done(r, Append(calls, convs[i]), FALSE, FALSE)
    ELSE try_converters(convs, i + 1, value, target, exclude, r.st,
                        chain_cause(r.err, last), Append(calls, convs[i]))

\* the loop of convert_value over the converters convs[i..]; last is the last
\* exception so far (<<>> for None), calls the converters called so far
try_converters(convs, i, value, target, exclude, st, last, calls) ==
    IF i > Len(convs) THEN fallback(value, target, st, last, calls)
    ELSE IF convs[i] \in exclude
    THEN try_converters(convs, i + 1, value, target, exclude, st, last, calls)
    ELSE converter_tried(convs, i, value, target, exclude, last, calls,
                         _call_converter(convs[i], value, target, st))

\* convert_value after get_converters(target) gave converters
converters_found(value, target, exclude, st, converters) ==
    try_converters(converters.res, 1, value, target, exclude,
                   [st EXCEPT !.cache = converters.cache], <<>>, <<>>)

\* convert_value(value, target, exclude_converters=exclude)
convert_value(value, target, exclude, st) ==
    converters_found(value, target, exclude, st, lookup(target, st.cache))
----------------------------------------------------------------------------
(* Conversions with the converters of the client.                           *)

\* the converters the client registers for its types: functions that return,
\* that raise a ConversionError and that raise a ValueError, a ConverterABC
\* class whose constructor raises, and a complex converter class
Converting ==
    {Func("func_conv"), Func("func_fail"), Func("func_raise"),
     Class("BrokenConv"), Class("Complex")}

\* a class of the client that never gets a converter, and Optional of it
SentinelB == Cls("SentinelB")
OptionalB == Alias("Union", <<SentinelB, NoneType>>)

\* the targets and the values the client converts
ConvTargets == {SentinelA, MyEnum, SentinelB, OptionalB}
ConvValues == {Obj("SentinelA", 1), Member("MyEnum", "A"), PyInt(5), PyNone}

\* the state the engine starts a call of the client in
St == [cache |-> cache, heap |-> heap]

\* the client has called convert_value and it gave r
Converted(value, target, exclude, r) ==
    /\ cache' = r.st.cache
    /\ heap' = r.st.heap
    /\ lastCall' = [op |-> "convert_value", value |-> value, target |-> target,
                    exclude |-> exclude, ok |-> r.ok, val |-> r.val, err |-> r.err,
                    calls |-> r.calls, checked |-> r.checked, ctor |-> r.ctor]
    /\ UNCHANGED <<_CONVERTERS, _COMPLEX_CONVERTERS, created, _sources>>

\* a call of convert_value(value, target, exclude_converters=exclude) by the client
ConvertValue(value, target, exclude) ==
    Converted(value, target, exclude, convert_value(value, target, exclude, St))

\* the client registers its converters for SentinelA
RegisterConverting ==
    \E target \in Converting, types \in SUBSET {SentinelA} :
        register_converter(target, types)

Convert ==
    \E value \in ConvValues, target \in ConvTargets :
        \E exclude \in SUBSET Range(get_converters(target)) :
            ConvertValue(value, target, exclude)

NextConvert == RegisterConverting \/ Convert

SpecConvert == Init /\ [][NextConvert]_vars


----------------------------------------------------------------------------
(* loader.py and sources/yaml.py: the loader of the client and its sources. *)

\* number of sources the client gives to set_sources
MaxSources == 2

\* the files of the client as yaml.safe_load reads them: <<>> for a file that
\* does not exist, None for an empty file
\*   one.yml:    {a: 1, sub: {x: 1}}       two.yml:   {a: "5", b: test}
\*   three.yml:  {sub: {y: A}}             four.yml:  {sub: []}
\*   bad.yml:    {a: a}                    extra.yml: {zz: 1}
\*   opt.yml:    {inner: {b: 1, c: 2}}
file_data(path) ==
    CASE path = "one.yml" ->
             <<PyDict(<<<<PyStr("a"), PyInt(1)>>,
                        <<PyStr("sub"), PyDict(<<<<PyStr("x"), PyInt(1)>>>>)>>>>)>>
      [] path = "two.yml" ->
             <<PyDict(<<<<PyStr("a"), PyStr("5")>>, <<PyStr("b"), PyStr("test")>>>>)>>
      [] path = "three.yml" ->
             <<PyDict(<<<<PyStr("sub"), PyDict(<<<<PyStr("y"), PyStr("A")>>>>)>>>>)>>
      [] path = "four.yml" -> <<PyDict(<<<<PyStr("sub"), PyList(<<>>)>>>>)>>
      [] path = "bad.yml" -> <<PyDict(<<<<PyStr("a"), PyStr("a")>>>>)>>
      [] path = "extra.yml" -> <<PyDict(<<<<PyStr("zz"), PyInt(1)>>>>)>>
      [] path = "opt.yml" ->
             <<PyDict(<<<<PyStr("inner"),
                         PyDict(<<<<PyStr("b"), PyInt(1)>>, <<PyStr("c"), PyInt(2)>>>>)>>>>)>>
      [] path = "empty.yml" -> <<PyNone>>
      [] OTHER -> <<>>

\* YAML(path, ignore_not_found=...)
YAML(path, ignore_not_found) ==
    [cls |-> "YAML", path |-> path, ignore_not_found |-> ignore_not_found]

\* the sources the client makes
Sources ==
    {YAML(p, FALSE) : p \in {"one.yml", "two.yml", "three.yml", "four.yml", "bad.yml",
                             "extra.yml", "opt.yml", "empty.yml", "none.yml"}}
        \cup {YAML("none.yml", TRUE)}

\* the templates and the other types the client loads
LoadTargets == {Cls("Conf"), Cls("Opt"), Cls("int")}

\* YAML.load_into(obj, template)
load_into(source, obj, template, st) ==
    IF file_data(source.path) = <<>>
    THEN IF source.ignore_not_found THEN Ok(PyNone, st)
         ELSE Fail(<<Exc("FileNotFoundError", "open", source.path)>>, st)
    ELSE load_fields_values(obj, fields(template.n), file_data(source.path)[1], FALSE, st)

SourceError(source, template) ==
    [type |-> "SourceError", msg |-> "couldn't load", who |-> "",
     source |-> source, template |-> template]

\* what Loader.load gives: also the calls of load_into it made, in order, each
\* with its source, the object it was given and how it ended, and whether it
\* came to run ensure_complete
Loaded(r, val, invoked, completed) ==
    [ok |-> r.ok, val |-> val, err |-> r.err, st |-> r.st,
     invoked |-> invoked, completed |-> completed]

Invoked(source, obj, r) == [source |-> source, obj |-> obj, ok |-> r.ok, err |-> r.err]

RECURSIVE load_sources(_, _, _, _, _, _)

\* the slip of going on with the next source after one has raised
source_skipped(sources, obj, template, i, invoked, r) ==
    load_sources(sources, obj, template, i + 1, r.st,
                 Append(invoked, Invoked(sources[i], obj, r)))

\* load_sources after load_into of sources[i] gave r
source_loaded(sources, obj, template, i, invoked, r) ==
    IF r.ok
    THEN load_sources(sources, obj, template, i + 1, r.st,
                      Append(invoked, Invoked(sources[i], obj, r)))
    ELSE Loaded(Fail(<<SourceError(sources[i], template)>> \o r.err, r.st), PyNone,
                Append(invoked, Invoked(sources[i], obj, r)), FALSE)

\* the end of Loader.load: ensure_complete gave r
load_completed(obj, invoked, r) == Loaded(r, IF r.ok THEN obj ELSE PyNone, invoked, TRUE)

\* the loop of Loader.load over the sources sources[i..]
load_sources(sources, obj, template, i, st, invoked) ==
    IF i > Len(sources)
    THEN load_completed(obj, invoked, ensure_complete(obj, template.n, st))
    ELSE source_loaded(sources, obj, template, i, invoked,
                       load_into(sources[i], obj, template, st))

\* Loader.load after the object was created
load_created(sources, template, c) == load_sources(sources, c.ref, template, 1, c.st, <<>>)

\* the slip of creating the object before the arguments are checked
load_created_first(sources, template, st) ==
    IF sources = <<>>
    THEN Loaded(Fail(<<Exc("ValueError", "No sources are set", "")>>,
                     create_object_from_template(template.n, st).st), PyNone, <<>>, FALSE)
    ELSE IF ~is_template_like(template)
    THEN Loaded(Fail(<<Exc("TypeError", "Template must be template-like", "")>>,
                     create_object_from_template(template.n, st).st), PyNone, <<>>, FALSE)
    ELSE load_created(sources, template, create_object_from_template(template.n, st))

\* Loader.load(template) for a class
load(sources, template, st) ==
    IF sources = <<>>
    THEN Loaded(Fail(<<Exc("ValueError", "No sources are set", "")>>, st), PyNone, <<>>, FALSE)
    ELSE IF ~is_template_like(template)
    THEN Loaded(Fail(<<Exc("TypeError", "Template must be template-like", "")>>, st),
                PyNone, <<>>, FALSE)
    ELSE load_created(sources, template, create_object_from_template(template.n, st))

\* the sequences over S of length up to n
SeqsUpTo(S, n) == UNION {[1..k -> S] : k \in 0..n}

\* loader.set_sources(*sources)
set_sources(sources) ==
    /\ _sources' = sources
    /\ lastCall' = [op |-> "set_sources"]
    /\ UNCHANGED <<_CONVERTERS, _COMPLEX_CONVERTERS, cache, created, heap>>

\* the client has called loader.load(template) and it gave r
LoadReturned(template, r) ==
    /\ cache' = r.st.cache
    /\ heap' = r.st.heap
    /\ lastCall' = [op |-> "load", template |-> template, sources |-> _sources,
                    ok |-> r.ok, val |-> r.val, err |-> r.err,
                    invoked |-> r.invoked, completed |-> r.completed]
    /\ UNCHANGED <<_CONVERTERS, _COMPLEX_CONVERTERS, created, _sources>>

\* one run of the client: it sets the sources, as often as it likes, and then
\* loads once
SetSources ==
    /\ lastCall.op # "load"
    /\ \E sources \in SeqsUpTo(Sources, MaxSources) : set_sources(sources)

Load ==
    /\ lastCall.op # "load"
    /\ \E template \in LoadTargets : LoadReturned(template, load(_sources, template, St))

NextLoad == SetSources \/ Load

SpecLoad == Init /\ [][NextLoad]_vars

----------------------------------------------------------------------------
(* Converting twice under the built-in registry.                            *)

\* the targets of the client: the registered classes and the parametrised
\* types the complex converters take
IdemTargets ==
    {Cls(c) : c \in {"bool", "int", "float", "complex", "str", "bytes", "tuple", "list",
                     "set", "dict", "Iterable", "Mapping", "Sub"}}
        \cup {NoneKey, NoneType, AnyType, MyEnum, Cls("Color"),
              Alias("Union", <<Cls("int"), Cls("str")>>),
              Alias("Union", <<Cls("str"), Cls("int")>>),
              Alias("Union", <<Cls("int"), NoneType>>),
              Alias("Union", <<Cls("int"), Cls("float")>>),
              Alias("Union", <<Cls("float"), MyEnum>>),
              Alias("Union", <<MyEnum, NoneType>>),
              Alias("Union", <<NoneType, Cls("int")>>),
              Alias("Union", <<Cls("int"), NoneType, Cls("str")>>),
              OptionalB,
              Alias("tuple", <<Cls("int"), EllipsisArg>>),
              Alias("tuple", <<Cls("int"), Cls("str")>>),
              Alias("list", <<Cls("int")>>),
              Alias("list", <<Cls("str")>>),
              Alias("list", <<MyEnum>>),
              Alias("list", <<AnyType>>),
              Alias("list", <<Alias("list", <<Cls("int")>>)>>),
              Alias("set", <<Cls("int")>>),
              Alias("Iterable", <<Cls("int")>>),
              Alias("Mapping", <<Cls("str"), Cls("str")>>),
              Alias("dict", <<Cls("str"), Cls("int")>>),
              Alias("dict", <<Cls("int"), Cls("str")>>)}

\* the values of the client
IdemValues ==
    {PyNone, PyBool(TRUE), PyBool(FALSE), PyInt(0), PyInt(1), PyInt(5),
     PyFloat(0), PyFloat(3), PyFloat(10), PyNaN, PyComplex(3, 0), PyComplex(0, 2),
     PyStr(""), PyStr("5"), PyStr("a"), PyStr("A"), PyStr("test"), PyStr("nan"),
     PyStr("1.5"), PyBytes(<<>>), PyBytes(<<53>>), PyBytes(<<0>>),
     PyList(<<>>), PyList(<<PyInt(1), PyInt(5)>>), PyList(<<PyStr("5"), PyStr("a")>>),
     PyList(<<PyInt(1), PyStr("a")>>), PyList(<<PyInt(5), PyInt(1), PyInt(0)>>),
     PyList(<<PyList(<<PyInt(1)>>), PyList(<<PyInt(5)>>)>>),
     PyList(<<Member("MyEnum", "A")>>), PyList(<<PyNone>>),
     PyList(<<PyTuple(<<PyInt(1), PyStr("a")>>)>>),
     PyTuple(<<>>), PyTuple(<<PyInt(1), PyInt(5)>>), PyTuple(<<PyStr("a")>>),
     PySet({PyInt(1), PyInt(5)}), PySet({PyTuple(<<PyInt(1), PyInt(5)>>)}),
     PyDict(<<>>), PyDict(<<<<PyStr("a"), PyInt(1)>>>>), PyDict(<<<<PyStr("a"), PyStr("5")>>>>),
     PyDict(<<<<PyInt(1), PyStr("a")>>, <<PyStr("1"), PyStr("test")>>>>),
     PyDict(<<<<PyStr("x"), PyStr("5")>>>>), PyDict(<<<<PyStr("a"), PyStr("test")>>>>),
     Member("MyEnum", "A"), Member("MyEnum", "TRYHARD"),
     PyStr("RED"), PyStr("BLUE"), PyStr("red"), PyStr("Red"), PyStr("blue"),
     Member("Color", "RED")}

\* konfi is imported and the client is about to convert a value
InitBuiltin ==
    /\ _CONVERTERS = BuiltinSimple
    /\ _COMPLEX_CONVERTERS = BuiltinComplex
    /\ cache = <<>>
    /\ created = 1
    /\ heap = <<>>
    /\ _sources = <<>>
    /\ lastCall \in {[op |-> "input", value |-> v, target |-> t] :
                        v \in IdemValues, t \in IdemTargets}

\* the client has called first = convert_value(value, target), which gave r
FirstConverted(r) ==
    /\ cache' = r.st.cache
    /\ heap' = r.st.heap
    /\ lastCall' = [op |-> "converted", value |-> lastCall.value,
                    target |-> lastCall.target, registered |-> has_converter(lastCall.target),
                    first |-> [ok |-> r.ok, val |-> r.val, err |-> r.err]]
    /\ UNCHANGED <<_CONVERTERS, _COMPLEX_CONVERTERS, created, _sources>>

\* the client has called convert_value(first, target), which gave r
SecondConverted(r) ==
    /\ cache' = r.st.cache
    /\ heap' = r.st.heap
    /\ lastCall' = [op |-> "reconverted", value |-> lastCall.value,
                    target |-> lastCall.target, registered |-> lastCall.registered,
                    first |-> lastCall.first,
                    second |-> [ok |-> r.ok, val |-> r.val, err |-> r.err]]
    /\ UNCHANGED <<_CONVERTERS, _COMPLEX_CONVERTERS, created, _sources>>

ConvertFirst ==
    /\ lastCall.op = "input"
    /\ FirstConverted(convert_value(lastCall.value, lastCall.target, {}, St))

ConvertSecond ==
    /\ lastCall.op = "converted"
    /\ lastCall.first.ok
    /\ SecondConverted(convert_value(lastCall.first.val, lastCall.target, {}, St))

NextBuiltin == ConvertFirst \/ ConvertSecond

SpecBuiltin == InitBuiltin /\ [][NextBuiltin]_vars
----------------------------------------------------------------------------
(* source.py and templ.py called by a source of the client: it makes the    *)
(* blank object of a template, loads one mapping into it with               *)
(* load_fields_values and checks it with ensure_complete.                   *)

\* number of entries of the mappings the client loads
MaxItems == 2

\* the templates the client loads mappings into
FieldTemplates == {"Inner", "Outer", "Root", "Opt"}

\* the values the mappings give to a field that is no template: one that
\* converts to int and one that does not
LeafValues == {PyInt(1), PyStr("x")}

\* the key of the mappings that no template has
UnknownKey == "zz"

\* the keys the mappings have: those of the fields of the template and the
\* unknown one
KeysFor(cls) == {f.key : f \in Range(fields(cls))} \cup {UnknownKey}

\* the mappings of up to n entries for the template cls, the keys in any
\* order; a nested template field gets a value that is no mapping or a
\* mapping of up to n - 1 entries
RECURSIVE Mappings(_, _), WithKeys(_, _, _)
ValuesFor(cls, key, n) ==
    IF key = UnknownKey THEN {PyInt(0)}
    ELSE IF is_template_like(field_by_key(fields(cls), PyStr(key))[1].value_type)
    THEN Mappings(field_by_key(fields(cls), PyStr(key))[1].value_type.n, n - 1)
             \cup {PyInt(1)}
    ELSE LeafValues

\* the sequences of items with the keys ks, in that order
WithKeys(cls, ks, n) ==
    IF ks = <<>> THEN {<<>>}
    ELSE {<<<<PyStr(Head(ks)), v>>>> \o rest :
              v \in ValuesFor(cls, Head(ks), n), rest \in WithKeys(cls, Tail(ks), n)}

Mappings(cls, n) ==
    {PyDict(items) :
        items \in UNION {WithKeys(cls, ks, n) :
                            ks \in {t \in SeqsUpTo(KeysFor(cls), n) :
                                       \A i, j \in DOMAIN t : t[i] = t[j] => i = j}}}

\* obj = create_object_from_template(cls)
ObjectCreated(cls, c) ==
    /\ heap' = c.st.heap
    /\ lastCall' = [op |-> "create", obj |-> c.ref, template |-> cls]
    /\ UNCHANGED <<_CONVERTERS, _COMPLEX_CONVERTERS, cache, created, _sources>>

NewObject ==
    /\ lastCall.op = "import"
    /\ \E cls \in FieldTemplates : ObjectCreated(cls, create_object_from_template(cls, St))

\* load_fields_values(obj, fields(template), mapping, ignore_unknown=...) gave r
FieldsLoaded(mapping, ignore_unknown, r) ==
    /\ cache' = r.st.cache
    /\ heap' = r.st.heap
    /\ lastCall' = [op |-> "load_fields_values", obj |-> lastCall.obj,
                    template |-> lastCall.template, mapping |-> mapping,
                    ignore_unknown |-> ignore_unknown, ok |-> r.ok, err |-> r.err]
    /\ UNCHANGED <<_CONVERTERS, _COMPLEX_CONVERTERS, created, _sources>>

LoadFieldsValues ==
    /\ lastCall.op = "create"
    /\ \E mapping \in Mappings(lastCall.template, MaxItems), ignore_unknown \in BOOLEAN :
           FieldsLoaded(mapping, ignore_unknown,
                        load_fields_values(lastCall.obj, fields(lastCall.template), mapping,
                                           ignore_unknown, St))

\* ensure_complete(obj, template) gave r; before is the heap it started with
Completed(r) ==
    /\ cache' = r.st.cache
    /\ heap' = r.st.heap
    /\ lastCall' = [op |-> "ensure_complete", obj |-> lastCall.obj,
                    template |-> lastCall.template, before |-> heap,
                    ok |-> r.ok, err |-> r.err]
    /\ UNCHANGED <<_CONVERTERS, _COMPLEX_CONVERTERS, created, _sources>>

\* the source checks the object once the mapping was loaded without an error
EnsureComplete ==
    /\ lastCall.op = "load_fields_values" /\ lastCall.ok
    /\ Completed(ensure_complete(lastCall.obj, lastCall.template, St))

NextFields == NewObject \/ LoadFieldsValues \/ EnsureComplete

SpecFields == Init /\ [][NextFields]_vars
----------------------------------------------------------------------------
(* templ.py: the declaration of a template.  A class body is the sequence   *)
(* of its annotated attributes, each with its type and with what the class  *)
(* holds under its name: nothing, a plain default value, or the             *)
(* UnboundField that konfi.field(...) gave.                                 *)

\* number of annotated attributes of the classes the client decorates
MaxFields == 2

NoValue == [kind |-> "none"]
Plain(v) == [kind |-> "plain", v |-> v]

\* konfi.field(key=..., default=..., factory=..., converter=...); <<>> stands
\* for an argument that is not given
UnboundField(key, default, factory, converter) ==
    [kind |-> "field", key |-> key, default |-> default, factory |-> factory,
     converter |-> converter]

Annotated(attr, typ, value) == [attr |-> attr, typ |-> typ, value |-> value]

\* upgrade_unbound(value, attribute=attr, value_type=typ); Field.__init__
\* takes the attribute for a key that is None
upgrade_unbound(unbound, attr, typ) ==
    Field(attr, IF unbound.key = <<>> THEN attr ELSE unbound.key[1], typ,
          unbound.default, unbound.factory, unbound.converter)

\* the field _make_fields makes for an annotated attribute
field_of(a) ==
    IF a.value.kind = "none" THEN Field(a.attr, a.attr, a.typ, <<>>, <<>>, <<>>)
    ELSE IF a.value.kind = "field" THEN upgrade_unbound(a.value, a.attr, a.typ)
    ELSE Field(a.attr, a.attr, a.typ, <<a.value.v>>, <<>>, <<>>)

\* cls_fields[attr] = field: a dict keeps the place of a key it has
set_field(cls_fields, field) ==
    IF \E i \in DOMAIN cls_fields : cls_fields[i].attribute = field.attribute
    THEN [i \in DOMAIN cls_fields |->
             IF cls_fields[i].attribute = field.attribute THEN field ELSE cls_fields[i]]
    ELSE Append(cls_fields, field)

\* what _make_fields gives: the fields in the order of the dict, or the
\* TypeError, and the cache of get_converters
Declared(ok, cls_fields, cch, err) ==
    [ok |-> ok, fields |-> cls_fields, cache |-> cch, err |-> err]

RECURSIVE make_fields(_, _, _, _)

\* _make_fields after has_converter(typ) gave found for the attribute body[i]
converter_checked(body, i, cls_fields, field, found) ==
    IF ~(field.converter # <<>> \/ is_template_like(body[i].typ) \/ Len(found.res) > 0)
    THEN Declared(FALSE, <<>>, found.cache,
                  <<Exc("TypeError", "Field doesn't have a converter", body[i].attr)>>)
    ELSE make_fields(body, i + 1, set_field(cls_fields, field), found.cache)

\* the loop of _make_fields over the annotations body[i..] of a class with
\* no template among its bases
make_fields(body, i, cls_fields, cch) ==
    IF i > Len(body) THEN Declared(TRUE, cls_fields, cch, <<>>)
    ELSE IF body[i].value.kind = "none"
    THEN make_fields(body, i + 1, set_field(cls_fields, field_of(body[i])), cch)
    ELSE converter_checked(body, i, cls_fields, field_of(body[i]),
                           IF field_of(body[i]).converter # <<>> \/ is_template_like(body[i].typ)
                           THEN [res |-> <<>>, cache |-> cch]
                           ELSE lookup(body[i].typ, cch))

_make_fields(body) == make_fields(body, 1, <<>>, cache)

\* the attributes, types and values of the classes the client decorates
AttrNames == {"a", "b", "c"}
AttrTypes == {Cls("int"), Cls("SentinelB")}
AttrValues ==
    {NoValue, Plain(PyInt(1)),
     UnboundField(<<>>, <<>>, <<>>, <<>>),
     UnboundField(<<"k">>, <<>>, <<>>, <<>>),
     UnboundField(<<"b">>, <<>>, <<>>, <<>>),
     UnboundField(<<"k">>, <<PyInt(0)>>, <<>>, <<>>),
     UnboundField(<<>>, <<>>, <<>>, <<Func("func_conv")>>)}

\* the class bodies: up to MaxFields attributes with different names
Bodies ==
    {body \in SeqsUpTo([attr : AttrNames, typ : AttrTypes, value : AttrValues], MaxFields) :
        \A i, j \in DOMAIN body : body[i].attr = body[j].attr => i = j}

\* @konfi.template() on a class with the body gave r
TemplateDeclared(body, r) ==
    /\ cache' = r.cache
    /\ lastCall' = [op |-> "template", body |-> body, ok |-> r.ok, fields |-> r.fields,
                    err |-> r.err]
    /\ UNCHANGED <<_CONVERTERS, _COMPLEX_CONVERTERS, created, heap, _sources>>

DeclareTemplate ==
    /\ lastCall.op = "import"
    /\ \E body \in Bodies : TemplateDeclared(body, _make_fields(body))

NextTemplate == DeclareTemplate

SpecTemplate == Init /\ [][NextTemplate]_vars

----------------------------------------------------------------------------
(* sources/env.py: the names of the environment variables.  A path segment  *)
(* is the sequence of its characters; a name is a string.                   *)

\* the longest segment the client passes in
MaxSegment == 2

Digits == {"0", "1", "2", "3", "4", "5", "6", "7", "8", "9"}
Lower ==
    <<"a", "b", "c", "d", "e", "f", "g", "h", "i", "j", "k", "l", "m",
      "n", "o", "p", "q", "r", "s", "t", "u", "v", "w", "x", "y", "z">>
Upper ==
    <<"A", "B", "C", "D", "E", "F", "G", "H", "I", "J", "K", "L", "M",
      "N", "O", "P", "Q", "R", "S", "T", "U", "V", "W", "X", "Y", "Z">>
LowerLetters == Range(Lower)
UpperLetters == Range(Upper)

\* \s, \d and [a-z0-9] under re.IGNORECASE
is_space(c) == c = " "
is_digit(c) == c \in Digits
is_portable(c) == c \in Digits \cup LowerLetters \cup UpperLetters

\* c.upper()
upper(c) ==
    IF c \in LowerLetters THEN Upper[CHOOSE i \in DOMAIN Lower : Lower[i] = c] ELSE c

\* the number of characters of part from position i on that are spaces, digits
RECURSIVE spaces_at(_, _), digits_at(_, _)
spaces_at(part, i) ==
    IF i <= Len(part) /\ is_space(part[i]) THEN 1 + spaces_at(part, i + 1) ELSE 0
digits_at(part, i) ==
    IF i <= Len(part) /\ is_digit(part[i]) THEN 1 + digits_at(part, i + 1) ELSE 0

\* the length of the match of ^\s*\d+ at the start of part, 0 for no match
leading_match(part) ==
    IF digits_at(part, 1 + spaces_at(part, 1)) = 0 THEN 0
    ELSE spaces_at(part, 1) + digits_at(part, 1 + spaces_at(part, 1))

\* unportable_chars_pattern.sub("", part): the first alternative matches at
\* the start of the part only, the second takes every other run of characters
\* that are no letters and no digits
unportable_sub(part) ==
    SelectSeq(SubSeq(part, 1 + leading_match(part), Len(part)), is_portable)

\* the string of a sequence of characters
RECURSIVE text(_)
text(cs) == IF cs = <<>> THEN "" ELSE Head(cs) \o text(Tail(cs))

\* "_".join(...) of sequences of characters
RECURSIVE joined(_)
joined(parts) ==
    IF parts = <<>> THEN <<>>
    ELSE IF Len(parts) = 1 THEN parts[1]
    ELSE parts[1] \o <<"_">> \o joined(Tail(parts))

\* build_env_name(path)
build_env_name(path) ==
    text([i \in 1..Len(joined([j \in 1..Len(path) |-> unportable_sub(path[j])])) |->
             upper(joined([j \in 1..Len(path) |-> unportable_sub(path[j])])[i])])

\* Env.get_env_name(path) of the source Env(prefix)
get_env_name(prefix, path) == prefix \o build_env_name(path)

\* the characters of the segments, the segments of at most n characters, the
\* paths of the client, of one segment and of two, and the prefixes of its
\* sources
SegmentChars == {"a", "D", "1", "_", " "}
Segments(n) == UNION {[1..k -> SegmentChars] : k \in 0..n}
TestPath == <<<<"s", "u", "b">>, <<"d", "_", "e">>>>
EnvPaths ==
    {<<s>> : s \in Segments(MaxSegment)}
        \cup {<<s, t>> : s \in Segments(MaxSegment), t \in Segments(MaxSegment)}
        \cup {TestPath}
Prefixes == {"", "P_"}

\* a call of get_env_name(path) on the source
GetEnvName ==
    \E path \in EnvPaths :
        /\ lastCall.op = "env"
        /\ lastCall' = [op |-> "get_env_name", prefix |-> lastCall.prefix, path |-> path,
                        name |-> get_env_name(lastCall.prefix, path)]
        /\ UNCHANGED <<_CONVERTERS, _COMPLEX_CONVERTERS, cache, created, heap, _sources>>

\* konfi is imported and the client has made Env(prefix)
InitEnvName ==
    /\ _CONVERTERS = BuiltinSimple
    /\ _COMPLEX_CONVERTERS = BuiltinComplex
    /\ cache = <<>>
    /\ created = 1
    /\ heap = <<>>
    /\ _sources = <<>>
    /\ lastCall \in {[op |-> "env", prefix |-> p] : p \in Prefixes}

NextEnvName == GetEnvName

SpecEnvName == InitEnvName /\ [][NextEnvName]_vars

----------------------------------------------------------------------------
(* A client that loads several times, one load after the other.             *)

\* the number of loads of the client
MaxLoads == 2

\* the sources it sets, one for a load, and the templates it loads
IsolatedSources ==
    {YAML("one.yml", FALSE), YAML("three.yml", FALSE), YAML("opt.yml", FALSE),
     YAML("none.yml", TRUE)}
IsolatedTargets == {Cls("Holder"), Cls("Conf"), Cls("Opt")}

\* the state a load of the client starts in when none ran before it
Fresh == [cache |-> <<>>, heap |-> HolderHeap]

\* loader.set_sources(*sources) between the loads
SourcesSet(sources) ==
    /\ _sources' = sources
    /\ lastCall' = [op |-> "set_sources", loads |-> lastCall.loads]
    /\ UNCHANGED <<_CONVERTERS, _COMPLEX_CONVERTERS, cache, created, heap>>

\* loader.load(template) gave r; loads keeps what every load so far gave
LoadedAgain(template, r) ==
    /\ cache' = r.st.cache
    /\ heap' = r.st.heap
    /\ lastCall' = [op |-> "load_again",
                    loads |-> Append(lastCall.loads,
                                     [template |-> template, sources |-> _sources,
                                      ok |-> r.ok, val |-> r.val, err |-> r.err])]
    /\ UNCHANGED <<_CONVERTERS, _COMPLEX_CONVERTERS, created, _sources>>

SetSourcesAgain ==
    /\ lastCall.op # "set_sources"
    /\ Len(lastCall.loads) < MaxLoads
    /\ \E source \in IsolatedSources : SourcesSet(<<source>>)

LoadAgain ==
    /\ lastCall.op = "set_sources"
    /\ \E template \in IsolatedTargets : LoadedAgain(template, load(_sources, template, St))

\* konfi and the module of Holder are imported
InitIsolated ==
    /\ _CONVERTERS = BuiltinSimple
    /\ _COMPLEX_CONVERTERS = BuiltinComplex
    /\ cache = <<>>
    /\ created = 1
    /\ heap = HolderHeap
    /\ _sources = <<>>
    /\ lastCall = [op |-> "import", loads |-> <<>>]

NextIsolated == SetSourcesAgain \/ LoadAgain

SpecIsolated == InitIsolated /\ [][NextIsolated]_vars

----------------------------------------------------------------------------
(* sources/env.py: the loading from the environment.  os.environ is a      *)
(* function from the names of the variables that are set to their raw      *)
(* values.                                                                  *)

\* ast.literal_eval(raw), the default decoder, of the raw values of the
\* environment: the value, or nothing for a ValueError
literal_eval(raw) ==
    CASE raw = "5" -> <<PyInt(5)>>
      [] raw = "1" -> <<PyInt(1)>>
      [] raw = "'a'" -> <<PyStr("a")>>
      [] OTHER -> <<>>

\* the name of the variable of a path of keys
env_key(prefix, path) == get_env_name(prefix, [i \in 1..Len(path) |-> chars(path[i])])

\* Env(prefix)._load_path(path, parent, field)
_load_path(prefix, environ, path, parent, field, st) ==
    IF env_key(prefix, path) \notin DOMAIN environ THEN Ok(PyNone, st)
    ELSE IF literal_eval(environ[env_key(prefix, path)]) = <<>>
    THEN Fail(<<PathError(path, "can't decode"), Exc("ValueError", "", "")>>, st)
    ELSE load_field_value(parent, field, literal_eval(environ[env_key(prefix, path)])[1], st)

\* the loop of Env.load_into over what iter_fields(parent, path, fs[i..])
\* yields; the object of a nested template is looked up on obj, the object
\* iter_fields_recursively was called with
RECURSIVE iter_fields(_, _, _, _, _, _, _, _), iter_rest(_, _, _, _, _, _, _, _),
          iter_nested(_, _, _, _, _, _, _, _)
iter_fields(prefix, environ, obj, parent, path, fs, i, st) ==
    IF i > Len(fs) THEN Ok(PyNone, st)
    ELSE IF is_template_like(fs[i].value_type)
    THEN iter_nested(prefix, environ, obj, parent, path, fs, i, _get_sub_obj(obj, fs[i], st))
    ELSE iter_rest(prefix, environ, obj, parent, path, fs, i,
                   _load_path(prefix, environ, Append(path, fs[i].key), parent, fs[i], st))

\* after _get_sub_obj gave sub
iter_nested(prefix, environ, obj, parent, path, fs, i, sub) ==
    iter_rest(prefix, environ, obj, parent, path, fs, i,
              iter_fields(prefix, environ, obj, sub.ref, Append(path, fs[i].key),
                          fields(fs[i].value_type.n), 1, sub.st))

\* after fs[i] gave r: an exception ends the loop
iter_rest(prefix, environ, obj, parent, path, fs, i, r) ==
    IF ~r.ok THEN r
    ELSE iter_fields(prefix, environ, obj, parent, path, fs, i + 1, r.st)

\* Env(prefix).load_into(obj, template)
env_load_into(prefix, environ, obj, template, st) ==
    iter_fields(prefix, environ, obj, obj, <<>>, fields(template), 1, st)

\* the variables the environment of the process may hold, the environments,
\* the prefixes of the sources and the templates the client loads
EnvVariables ==
    {<<"P_OUTER_SUB_B", "5">>, <<"P_OUTER_SUB_C", "1">>, <<"P_OUTER_D", "1">>,
     <<"P_OUTER_E", "x">>, <<"P_R", "'a'">>, <<"P_SUB_X", "5">>,
     <<"P_INNER_B", "1">>, <<"OUTER_D", "5">>}
environ_of(set) == [name \in {v[1] : v \in set} |-> (CHOOSE v \in set : v[1] = name)[2]]
Environs == {environ_of(set) : set \in SUBSET EnvVariables}
EnvPrefixes == {"P_", "P_OUTER_"}
EnvTemplates == {"Root", "Outer", "Inner", "Opt"}

\* obj = create_object_from_template(cls)
EnvObjectCreated(cls, c) ==
    /\ heap' = c.st.heap
    /\ lastCall' = [op |-> "env_create", environ |-> lastCall.environ, obj |-> c.ref,
                    template |-> cls]
    /\ UNCHANGED <<_CONVERTERS, _COMPLEX_CONVERTERS, cache, created, _sources>>

EnvNewObject ==
    /\ lastCall.op = "environ"
    /\ \E cls \in EnvTemplates : EnvObjectCreated(cls, create_object_from_template(cls, St))

\* Env(prefix).load_into(obj, template) gave r; before is the heap it started
\* with
EnvLoaded(prefix, r) ==
    /\ cache' = r.st.cache
    /\ heap' = r.st.heap
    /\ lastCall' = [op |-> "env_load_into", environ |-> lastCall.environ,
                    prefix |-> prefix, obj |-> lastCall.obj,
                    template |-> lastCall.template, before |-> heap,
                    ok |-> r.ok, err |-> r.err]
    /\ UNCHANGED <<_CONVERTERS, _COMPLEX_CONVERTERS, created, _sources>>

EnvLoadInto ==
    /\ lastCall.op = "env_create"
    /\ \E prefix \in EnvPrefixes :
           EnvLoaded(prefix, env_load_into(prefix, lastCall.environ, lastCall.obj,
                                           lastCall.template, St))

\* ensure_complete(obj, template) gave r, once the source ran without an error
EnvCompleted(r) ==
    /\ cache' = r.st.cache
    /\ heap' = r.st.heap
    /\ lastCall' = [op |-> "env_complete", environ |-> lastCall.environ,
                    prefix |-> lastCall.prefix, obj |-> lastCall.obj,
                    template |-> lastCall.template, before |-> lastCall.before,
                    ok |-> r.ok, err |-> r.err]
    /\ UNCHANGED <<_CONVERTERS, _COMPLEX_CONVERTERS, created, _sources>>

EnvEnsureComplete ==
    /\ lastCall.op = "env_load_into" /\ lastCall.ok
    /\ EnvCompleted(ensure_complete(lastCall.obj, lastCall.template, St))

\* konfi is imported in a process with the environment environ
InitEnv ==
    /\ _CONVERTERS = BuiltinSimple
    /\ _COMPLEX_CONVERTERS = BuiltinComplex
    /\ cache = <<>>
    /\ created = 1
    /\ heap = <<>>
    /\ _sources = <<>>
    /\ lastCall \in {[op |-> "environ", environ |-> environ] : environ \in Environs}

NextEnv == EnvNewObject \/ EnvLoadInto \/ EnvEnsureComplete

SpecEnv == InitEnv /\ [][NextEnv]_vars

----------------------------------------------------------------------------
(* A source of the client that loads a mapping into an object that an       *)
(* earlier mapping was loaded into.                                         *)

\* the templates of the objects, and the mappings loaded first: those of one
\* entry
OverTemplates == {"Inner", "Outer"}
Earlier(cls) == Mappings(cls, 1)

NewObjectOver ==
    /\ lastCall.op = "import"
    /\ \E cls \in OverTemplates : ObjectCreated(cls, create_object_from_template(cls, St))

\* the first load_fields_values(obj, fields(template), mapping) gave r
EarlierLoaded(mapping, r) ==
    /\ cache' = r.st.cache
    /\ heap' = r.st.heap
    /\ lastCall' = [op |-> "load_earlier", obj |-> lastCall.obj,
                    template |-> lastCall.template, mapping |-> mapping,
                    ok |-> r.ok, err |-> r.err]
    /\ UNCHANGED <<_CONVERTERS, _COMPLEX_CONVERTERS, created, _sources>>

LoadEarlier ==
    /\ lastCall.op = "create"
    /\ \E mapping \in Earlier(lastCall.template) :
           EarlierLoaded(mapping,
                         load_fields_values(lastCall.obj, fields(lastCall.template), mapping,
                                            FALSE, St))

\* the second load_fields_values(obj, fields(template), mapping,
\* ignore_unknown=...) gave r; before is the heap it started with
LoadedOver(mapping, ignore_unknown, r) ==
    /\ cache' = r.st.cache
    /\ heap' = r.st.heap
    /\ lastCall' = [op |-> "load_over", obj |-> lastCall.obj,
                    template |-> lastCall.template, mapping |-> mapping,
                    ignore_unknown |-> ignore_unknown, before |-> heap,
                    ok |-> r.ok, err |-> r.err]
    /\ UNCHANGED <<_CONVERTERS, _COMPLEX_CONVERTERS, created, _sources>>

\* the client goes on to the next mapping whether or not the first one raised
LoadOver ==
    /\ lastCall.op = "load_earlier"
    /\ \E mapping \in Mappings(lastCall.template, MaxItems), ignore_unknown \in BOOLEAN :
           LoadedOver(mapping, ignore_unknown,
                      load_fields_values(lastCall.obj, fields(lastCall.template), mapping,
                                         ignore_unknown, St))

NextOver == NewObjectOver \/ LoadEarlier \/ LoadOver

SpecOver == Init /\ [][NextOver]_vars
----------------------------------------------------------------------------
(* Claims about the registry.                                               *)

\* the complex converters whose can_convert(target) holds, newest first
applicable_complex(target) ==
    SelectSeq(Reverse(_COMPLEX_CONVERTERS), LAMBDA c : can_convert(c, target, <<>>).ok)

no_simple_registered(target) ==
    target \notin DOMAIN _CONVERTERS \/ _CONVERTERS[target] = <<>>

\* C1: whenever no simple converter is currently registered for T (none ever
\* was, or all were unregistered again), get_converters(T) is exactly the
\* complex converters whose can_convert(T) holds, newest first.
C1_ComplexWheneverNoSimple ==
    \A target \in LookupTypes :
        no_simple_registered(target) => get_converters(target) = applicable_complex(target)

\* s without its i-th element
RemoveAt(s, i) == [j \in 1..(Len(s) - 1) |-> IF j < i THEN s[j] ELSE s[j + 1]]

\* the simple converters registered for a type come back newest first, without
\* any complex converter
C2_SimpleOnly ==
    \A target \in LookupTypes :
        ~no_simple_registered(target) =>
            /\ get_converters(target) = Reverse(_CONVERTERS[target])
            /\ \A c \in Range(get_converters(target)) : ~is_complex_converter(c)
            /\ has_converter(target)

\* what a successful unregistration of a simple converter does to the lists
C2_UnregisterStep ==
    (lastCall'.op = "unregister" /\ lastCall'.raised = "") =>
    \A conv \in UserSimple, types \in SUBSET RegTypes :
        unregister_converter(conv, types) =>
            /\ DOMAIN _CONVERTERS' = DOMAIN _CONVERTERS
            /\ \A typ \in DOMAIN _CONVERTERS :
                   IF (types = {} \/ typ \in types) /\ conv \in Range(_CONVERTERS[typ])
                   THEN /\ \E i \in 1..Len(_CONVERTERS[typ]) :
                               /\ _CONVERTERS[typ][i] = conv
                               /\ _CONVERTERS'[typ] = RemoveAt(_CONVERTERS[typ], i)
                        /\ Len(_CONVERTERS[typ]) = 2 =>
                               /\ has_converter(typ)'
                               /\ get_converters(typ)' = _CONVERTERS'[typ]
                               /\ Len(get_converters(typ)') = 1
                   ELSE _CONVERTERS'[typ] = _CONVERTERS[typ]

\* what a successful registration of a simple converter does to the lists
C2_RegisterStep ==
    (lastCall'.op = "register" /\ lastCall'.raised = "") =>
    \A conv \in UserSimple, types \in (SUBSET RegTypes) \ {{}} :
        register_converter(conv, types) =>
            \A typ \in DOMAIN _CONVERTERS' :
                IF typ \in types
                THEN /\ get_converters(typ)'[1] = conv
                     /\ typ \in DOMAIN _CONVERTERS =>
                            Tail(get_converters(typ)') = Reverse(_CONVERTERS[typ])
                ELSE typ \in DOMAIN _CONVERTERS /\ _CONVERTERS'[typ] = _CONVERTERS[typ]

\* C2: while a simple converter is registered for T, get_converters(T) is the
\* simple converters registered for T, newest first, and no complex one;
\* unregistering one of two leaves the other as the only one returned, and
\* unregistering from one type leaves the lists of the other types alone.
C2_SimplePrecedence ==
    []C2_SimpleOnly /\ [][C2_UnregisterStep /\ C2_RegisterStep]_vars

\* a simple converter was unregistered from MyEnum and left the other converter
\* of MyEnum as the only one returned, although EnumConverter could convert
\* MyEnum, and the lists of the other types are what they were
C2_Witness ==
    /\ lastCall.op = "unregister" /\ lastCall.raised = ""
    /\ MyEnum \in DOMAIN _CONVERTERS
    /\ _CONVERTERS[MyEnum] = <<Class("ClassConv")>>
    /\ get_converters(MyEnum) = <<Class("ClassConv")>>
    /\ Len(applicable_complex(MyEnum)) > 0
    /\ \A typ \in DOMAIN BuiltinSimple : _CONVERTERS[typ] = BuiltinSimple[typ]

\* C3: the cache is never stale: get_converters(T) and has_converter(T) are
\* what the current lists give without a cache.
C3_CacheNeverStale ==
    \A target \in LookupTypes :
        /\ get_converters(target) = lookup(target, <<>>).res
        /\ has_converter(target) = (Len(lookup(target, <<>>).res) > 0)

\* a registration or unregistration returned, and a type that was cached
\* before it now has other converters than the cached ones
C3_Witness ==
    /\ lastCall.op \in {"register", "unregister"}
    /\ lastCall.raised = ""
    /\ \E target \in DOMAIN lastCall.cached :
           lastCall.cached[target] # get_converters(target)

----------------------------------------------------------------------------
(* Claims about convert_value.  They are stated on the record of the last  *)
(* call of the client; the registry is what it was when the call was made,  *)
(* for convert_value changes nothing but the cache.                         *)

is_convert_call == lastCall.op = "convert_value"

\* the converters of the target of the last call that were not excluded
candidates ==
    SelectSeq(get_converters(lastCall.target), LAMBDA c : c \notin lastCall.exclude)

\* what the converter c does with the value of the last call, called alone
outcome(c) == _call_converter(c, lastCall.value, lastCall.target, St)

all_candidates_fail == \A i \in 1..Len(candidates) : ~outcome(candidates[i]).ok

\* the exception after the first k candidates failed one after the other: the
\* exception of the k-th, its cause that of the one before, and so on
RECURSIVE chained(_)
chained(k) ==
    IF k = 1 THEN outcome(candidates[1]).err
    ELSE <<Head(outcome(candidates[k]).err)>> \o chained(k - 1)

\* C4: convert_value calls the non-excluded converters of get_converters(target)
\* one at a time in that order; it returns what the first one that succeeds
\* returns and calls none after it; after a ConversionError it goes on with the
\* next converter, the new exception chained to the previous one.
C4_OneAtATime ==
    is_convert_call =>
        LET n == Len(lastCall.calls)
        IN  /\ n <= Len(candidates)
            /\ lastCall.calls = SubSeq(candidates, 1, n)
            /\ \A i \in 1..(n - 1) : ~outcome(candidates[i]).ok
            /\ n < Len(candidates) => n > 0 /\ outcome(candidates[n]).ok
            /\ (n > 0 /\ outcome(candidates[n]).ok) =>
                   /\ lastCall.ok
                   /\ lastCall.val = outcome(candidates[n]).val
                   /\ ~lastCall.checked
            /\ (n > 0 /\ ~outcome(candidates[n]).ok /\ ~lastCall.ok) =>
                   /\ lastCall.err = chained(n)
                   /\ \A i \in 1..n :
                          lastCall.err[i] = Head(outcome(candidates[n + 1 - i]).err)

\* two converters were called: the first raised, the second returned, and what
\* it returned is what convert_value returned
C4_Witness ==
    /\ is_convert_call
    /\ Len(lastCall.calls) = 2
    /\ ~outcome(lastCall.calls[1]).ok
    /\ outcome(lastCall.calls[2]).ok
    /\ lastCall.ok
    /\ lastCall.val = outcome(lastCall.calls[2]).val

\* C5: when no converter succeeded (there is none, all were excluded, or all
\* failed) and has_type(value, target) holds, convert_value returns the value
\* itself; has_type is consulted only after every non-excluded converter was
\* called and failed.
C5_HasTypeFallback ==
    is_convert_call =>
        /\ (all_candidates_fail /\ has_type(lastCall.value, lastCall.target) = "True") =>
               /\ lastCall.ok
               /\ lastCall.val = lastCall.value
               /\ lastCall.checked
        /\ lastCall.checked => lastCall.calls = candidates /\ all_candidates_fail

\* a converter was called and failed, and the value, which has the type of the
\* target, was returned as it is
C5_Witness ==
    /\ is_convert_call
    /\ Len(lastCall.calls) >= 1
    /\ all_candidates_fail
    /\ has_type(lastCall.value, lastCall.target) = "True"
    /\ lastCall.checked
    /\ lastCall.ok /\ lastCall.val = lastCall.value

\* C6: the constructor target(value) is attempted only when no converter was
\* called and the value has not the type of the target; its failure is raised
\* as a ConversionError; when a converter was called and all failed, and the
\* value has not the type, the constructor is not attempted and the chained
\* exception of the converters is raised.
C6_ConstructorFallback ==
    is_convert_call =>
        LET made == construct(lastCall.target.n, lastCall.value)
        IN  /\ lastCall.ctor =>
                   /\ lastCall.calls = <<>>
                   /\ has_type(lastCall.value, lastCall.target) # "True"
                   /\ lastCall.ok = made.ok
                   /\ made.ok => lastCall.val = made.val
                   /\ ~made.ok =>
                          /\ Head(lastCall.err).type = "ConversionError"
                          /\ Tail(lastCall.err) = made.err
            /\ (/\ Len(lastCall.calls) >= 1
                /\ all_candidates_fail
                /\ has_type(lastCall.value, lastCall.target) # "True") =>
                   /\ ~lastCall.ctor
                   /\ ~lastCall.ok
                   /\ lastCall.err = chained(Len(candidates))

\* no converter was called, the value has not the type of the target, and the
\* constructor raised: a ConversionError with that exception as its cause
C6_Witness ==
    /\ is_convert_call
    /\ lastCall.ctor
    /\ lastCall.calls = <<>>
    /\ ~lastCall.ok
    /\ Head(lastCall.err).type = "ConversionError"
    /\ Tail(lastCall.err) = construct(lastCall.target.n, lastCall.value).err


----------------------------------------------------------------------------
(* Claims about converting twice.                                           *)

is_reconverted == lastCall.op = "reconverted" /\ lastCall.registered

----------------------------------------------------------------------------
(* Claims about Loader.load.  They are stated on the record of the last     *)
(* call of loader.load, on the files of the sources and on the heap.        *)

is_load == lastCall.op = "load"

\* the value the mapping data holds under the keys of path, as a one-element
\* sequence; <<>> when a key is missing or a value on the way is no mapping
RECURSIVE raw_at(_, _)
raw_at(data, path) ==
    IF path = <<>> THEN <<data>>
    ELSE IF ~isinstance(data, "Mapping") THEN <<>>
    ELSE LET hits == SelectSeq(data.v, LAMBDA p : p[1] = PyStr(Head(path)))
         IN  IF hits = <<>> THEN <<>> ELSE raw_at(hits[1][2], Tail(path))

\* what the file of the source supplies for the path
supplied(source, path) ==
    IF file_data(source.path) = <<>> THEN <<>> ELSE raw_at(file_data(source.path)[1], path)

\* the paths of keys to the leaf fields of the template, the field a path of
\* keys leads to, and the value of the object at the end of a path
RECURSIVE leaf_paths(_), field_at(_, _), value_at(_, _)
leaf_paths(cls) ==
    UNION {IF is_template_like(f.value_type)
           THEN {<<f.key>> \o p : p \in leaf_paths(f.value_type.n)}
           ELSE {<<f.key>>} : f \in Range(fields(cls))}

field_at(cls, path) ==
    LET f == CHOOSE g \in Range(fields(cls)) : g.key = Head(path)
    IN  IF Len(path) = 1 THEN f ELSE field_at(f.value_type.n, Tail(path))

value_at(obj, path) ==
    LET f == CHOOSE g \in Range(fields(obj.t)) : g.key = Head(path)
    IN  IF Len(path) = 1 THEN getattr(St, obj, f.attribute)
        ELSE value_at(getattr(St, obj, f.attribute), Tail(path))

\* the sources of the last load that supply a value for the path, by index
suppliers(path) ==
    {i \in 1..Len(lastCall.sources) : supplied(lastCall.sources[i], path) # <<>>}

Last(S) == CHOOSE i \in S : \A j \in S : j <= i

\* the value the field at the path gets from what the i-th source supplies
value_from(i, path) ==
    convert_value(supplied(lastCall.sources[i], path)[1],
                  field_at(lastCall.template.n, path).value_type, {}, St).val

\* every source was applied, in the order of set_sources, to the object that
\* load returned
applied_in_order ==
    lastCall.invoked =
        [i \in 1..Len(lastCall.sources) |->
            [source |-> lastCall.sources[i], obj |-> lastCall.val, ok |-> TRUE, err |-> <<>>]]

nested_replaced_after(i, path) ==
    \E j \in (i + 1)..Len(lastCall.sources), n \in 1..(Len(path) - 1) :
        /\ supplied(lastCall.sources[j], SubSeq(path, 1, n)) # <<>>
        /\ ~isinstance(supplied(lastCall.sources[j], SubSeq(path, 1, n))[1], "Mapping")

loaded_object == lastCall.invoked[1].obj

\* the nested template fields of the template of the last load
nested_fields ==
    {f \in Range(fields(lastCall.template.n)) : is_template_like(f.value_type)}

\* the objects of class cls on the heap
objects_of(cls) == {id \in DOMAIN heap : heap[id].cls = cls}

\* C9: when the sources give mappings for a nested template field, the first
\* of them creates the nested object and the later ones load into the same
\* object: it holds, for every leaf key, the value of the last mapping that
\* has the key, whatever the mappings after it hold.
C9_DeepMerge ==
    (is_load /\ lastCall.completed) =>
        \A f \in nested_fields :
            (/\ suppliers(<<f.key>>) # {}
             /\ \A i \in suppliers(<<f.key>>) :
                    isinstance(supplied(lastCall.sources[i], <<f.key>>)[1], "Mapping")) =>
                /\ Cardinality(objects_of(f.value_type.n)) = 1
                /\ getattr(St, loaded_object, f.attribute).id \in objects_of(f.value_type.n)
                /\ \A path \in {<<f.key>> \o p : p \in leaf_paths(f.value_type.n)} :
                       suppliers(path) # {} =>
                           value_at(loaded_object, path)
                               = value_from(Last(suppliers(path)), path)

\* two sources give mappings for sub, the first with x only and the second
\* with y only, and the nested object holds both values
C9_Witness ==
    /\ is_load /\ lastCall.completed
    /\ suppliers(<<"sub", "x">>) = {1}
    /\ suppliers(<<"sub", "y">>) = {2}
    /\ value_at(loaded_object, <<"sub", "x">>) = PyInt(1)
    /\ value_at(loaded_object, <<"sub", "y">>) = PyStr("A")

\* C10: the sources are invoked in order; when the load_into of the i-th
\* raises, load raises a SourceError with that source, the template and the
\* exception as its cause, invokes no source after it and does not run the
\* completion check.
C10_SourceErrorStops ==
    is_load =>
        \A i \in 1..Len(lastCall.invoked) :
            /\ lastCall.invoked[i].source = lastCall.sources[i]
            /\ ~lastCall.invoked[i].ok =>
                   /\ ~lastCall.ok
                   /\ Head(lastCall.err).type = "SourceError"
                   /\ Head(lastCall.err).source = lastCall.sources[i]
                   /\ Head(lastCall.err).template = lastCall.template
                   /\ Tail(lastCall.err) = lastCall.invoked[i].err
                   /\ Len(lastCall.invoked) = i
                   /\ ~lastCall.completed

\* the first of two sources raised: load raised a SourceError for it and the
\* second source was not invoked
C10_Witness ==
    /\ is_load
    /\ Len(lastCall.sources) = 2
    /\ Len(lastCall.invoked) = 1
    /\ ~lastCall.invoked[1].ok
    /\ Head(lastCall.err).type = "SourceError"
    /\ Head(lastCall.err).source = lastCall.sources[1]

\* C11: Loader.load raises ValueError when no sources are set and TypeError
\* when sources are set and the argument is not template-like; in both cases
\* no object has been created or changed and no source has been invoked.
C11_FailsBeforeAnything ==
    [][(/\ lastCall'.op = "load"
        /\ (_sources = <<>> \/ ~is_template_like(lastCall'.template))) =>
           /\ ~lastCall'.ok
           /\ Len(lastCall'.err) = 1
           /\ Head(lastCall'.err).type
                  = (IF _sources = <<>> THEN "ValueError" ELSE "TypeError")
           /\ lastCall'.invoked = <<>>
           /\ ~lastCall'.completed
           /\ heap' = heap]_vars

\* load(int) with two sources set raised TypeError and invoked neither
C11_Witness ==
    /\ is_load
    /\ Len(lastCall.sources) = 2
    /\ lastCall.template = Cls("int")
    /\ ~lastCall.ok
    /\ Head(lastCall.err).type = "TypeError"
    /\ lastCall.invoked = <<>>

\* every field of the template cls has a value on the object, and so has
\* every field of the template of a nested field on the object it holds
RECURSIVE populated(_, _)
populated(obj, cls) ==
    /\ is_object(St, obj)
    /\ \A f \in Range(fields(cls)) :
           /\ hasattr(St, obj, f.attribute)
           /\ is_template_like(f.value_type) =>
                  populated(getattr(St, obj, f.attribute), f.value_type.n)

\* C12 as stated: the object that Loader.load returns has a value for every
\* field of the template, and so have the objects of its nested template
\* fields, recursively; the completion check runs only after every source
\* was applied.
C12_FullyPopulated ==
    /\ (is_load /\ lastCall.ok) => populated(lastCall.val, lastCall.template.n)
    /\ (is_load /\ lastCall.completed) =>
           /\ Len(lastCall.invoked) = Len(lastCall.sources)
           /\ \A i \in 1..Len(lastCall.invoked) : lastCall.invoked[i].ok

----------------------------------------------------------------------------
(* Claims about load_fields_values and ensure_complete.  They are stated on *)
(* the record of the last call and on the heap.                             *)

is_load_fields == lastCall.op = "load_fields_values"

\* what load_fields_values gives for a mapping of the one item alone, loaded
\* into a blank object of the template
entry_alone(cls, item, ignore_unknown) ==
    load_fields_values(Obj(cls, 1), fields(cls), PyDict(<<item>>), ignore_unknown,
                       create_object_from_template(cls, [cache |-> cache, heap |-> <<>>]).st)

\* the entries of the mapping of the last call, each loaded alone, and the
\* errors of those that fail, in the order of the mapping
entries_alone ==
    [i \in DOMAIN lastCall.mapping.v |->
        entry_alone(lastCall.template, lastCall.mapping.v[i], lastCall.ignore_unknown)]

entry_errors ==
    LET failing == SelectSeq(entries_alone, LAMBDA r : ~r.ok)
    IN  [k \in DOMAIN failing |-> failing[k].err]

\* the entry items[i] of a known field was applied to the object
entry_applied(i) ==
    LET f == field_by_key(fields(lastCall.template), lastCall.mapping.v[i][1])
    IN  f # <<>> => f[1].attribute \in DOMAIN heap[lastCall.obj.id].attrs

\* C13 as stated: load_fields_values attempts every entry of the mapping; the
\* errors of the entries (unexpected key, conversion failure, nested failure)
\* are collected: none gives no error, one is raised as it is, and n >= 2
\* give one MultiPathError with exactly those n errors in the order of the
\* mapping.
C13_ErrorsCollected ==
    is_load_fields =>
        /\ \A i \in DOMAIN lastCall.mapping.v : entries_alone[i].ok => entry_applied(i)
        /\ Len(entry_errors) = 0 => lastCall.ok
        /\ Len(entry_errors) = 1 => ~lastCall.ok /\ lastCall.err = entry_errors[1]
        /\ Len(entry_errors) >= 2 =>
               /\ ~lastCall.ok
               /\ Head(lastCall.err).type = "MultiPathError"
               /\ Head(lastCall.err).errors = entry_errors

\* the paths of keys, from the root of the mapping, of the entries that
\* load_fields_values cannot load: a key no field has, a value that does not
\* convert to the type of its field, and such entries of the mappings given
\* for nested template fields
RECURSIVE offending_paths(_, _)
offending_entry(cls, item) ==
    LET f == field_by_key(fields(cls), item[1])
    IN  IF f = <<>> THEN {<<item[1].v>>}
        ELSE IF is_template_like(f[1].value_type) /\ isinstance(item[2], "Mapping")
        THEN {<<item[1].v>> \o p : p \in offending_paths(f[1].value_type.n, item[2])}
        ELSE IF convert_value(item[2], f[1].value_type, {}, St).ok THEN {}
        ELSE {<<item[1].v>>}

offending_paths(cls, mapping) ==
    UNION {offending_entry(cls, mapping.v[i]) : i \in DOMAIN mapping.v}

\* the errors a path error stands for: itself, or those its group holds
RECURSIVE leaf_errors(_)
leaf_errors(err) ==
    IF Head(err).type = "MultiPathError"
    THEN UNION {leaf_errors(Head(err).errors[i]) : i \in DOMAIN Head(err).errors}
    ELSE {Head(err)}

\* C14 as stated: every path error that load_fields_values raises, also for
\* an entry of a nested mapping, has as its path the keys from the root of
\* the mapping to the offending entry.
C14_FullPath ==
    (is_load_fields /\ ~lastCall.ok) =>
        \A e \in leaf_errors(lastCall.err) :
            e.path \in offending_paths(lastCall.template, lastCall.mapping)

is_ensure_complete == lastCall.op = "ensure_complete"

\* the state ensure_complete of the last call started in
Before == [cache |-> cache, heap |-> lastCall.before]

\* the paths of keys, from the root template, of the required fields that
\* have no value in the state st, those of the nested objects that are set
\* included
RECURSIVE missing_paths(_, _, _)
missing_paths(st, obj, cls) ==
    UNION {IF ~hasattr(st, obj, f.attribute)
           THEN IF required(f) THEN {<<f.key>>} ELSE {}
           ELSE IF is_template_like(f.value_type)
           THEN {<<f.key>> \o p :
                    p \in missing_paths(st, getattr(st, obj, f.attribute), f.value_type.n)}
           ELSE {} : f \in Range(fields(cls))}

\* C15 as stated: ensure_complete checks the nested objects that are set, and
\* every missing-value error it reports, raised directly or as a child of a
\* grouped error, has as its path the keys from the root template to the
\* missing field.
C15_NestedMissingPaths ==
    is_ensure_complete =>
        /\ lastCall.ok <=> missing_paths(Before, lastCall.obj, lastCall.template) = {}
        /\ ~lastCall.ok =>
               {e.path : e \in leaf_errors(lastCall.err)}
                   = missing_paths(Before, lastCall.obj, lastCall.template)

\* the fields of the template of the last call that had no value when
\* ensure_complete started and are required
unset_required ==
    {f \in Range(fields(lastCall.template)) :
        ~hasattr(Before, lastCall.obj, f.attribute) /\ required(f)}

\* C16 as stated: with n the number of required fields of the template that
\* are unset, ensure_complete raises one MultiPathError with n children when
\* n >= 2, the FieldError of the field itself when n = 1 and nothing when
\* n = 0.
C16_GroupedMissing ==
    is_ensure_complete =>
        /\ Cardinality(unset_required) >= 2 =>
               /\ ~lastCall.ok
               /\ Head(lastCall.err).type = "MultiPathError"
               /\ Len(Head(lastCall.err).errors) = Cardinality(unset_required)
        /\ Cardinality(unset_required) = 1 =>
               /\ ~lastCall.ok
               /\ Head(lastCall.err).type = "FieldError"
               /\ \E f \in unset_required : Head(lastCall.err).path = <<f.key>>
        /\ Cardinality(unset_required) = 0 => lastCall.ok

\* the fields whose check fails: the required ones that were unset and the
\* nested template fields that were set to an object with a missing value
failing_fields ==
    SelectSeq(fields(lastCall.template),
              LAMBDA f : IF ~hasattr(Before, lastCall.obj, f.attribute) THEN required(f)
                         ELSE /\ is_template_like(f.value_type)
                              /\ missing_paths(Before, getattr(Before, lastCall.obj, f.attribute),
                                               f.value_type.n) # {})

\* the error is the one ensure_complete reports for the field f: the
\* FieldError of an unset field, or the error of the nested check with the
\* key of the field in front of its path
reported_for(err, f) ==
    /\ Head(err).path # <<>> /\ Head(Head(err).path) = f.key
    /\ ~hasattr(Before, lastCall.obj, f.attribute) =>
           /\ Head(err).type = "FieldError"
           /\ Head(err).path = <<f.key>>
           /\ Head(err).who = f.attribute

\* C16, amended: ensure_complete visits all fields, filling the defaults of
\* the unset ones; with n the number of unset required fields plus the number
\* of set nested template fields whose own check fails, it raises one
\* MultiPathError with exactly those n errors as children, in the order of
\* the fields, when n >= 2, that one error without a wrapper when n = 1, and
\* nothing when n = 0.
C16_GroupedFailing ==
    is_ensure_complete =>
        /\ \A f \in Range(fields(lastCall.template)) :
               (~hasattr(Before, lastCall.obj, f.attribute) /\ ~required(f)) =>
                   hasattr(St, lastCall.obj, f.attribute)
        /\ Len(failing_fields) >= 2 =>
               /\ ~lastCall.ok
               /\ Head(lastCall.err).type = "MultiPathError"
               /\ Head(lastCall.err).path = <<>>
               /\ Len(Head(lastCall.err).errors) = Len(failing_fields)
               /\ \A k \in DOMAIN failing_fields :
                      reported_for(Head(lastCall.err).errors[k], failing_fields[k])
        /\ Len(failing_fields) = 1 =>
               /\ ~lastCall.ok
               /\ reported_for(lastCall.err, failing_fields[1])
        /\ Len(failing_fields) = 0 => lastCall.ok

\* Outer with a blank nested object, d unset and e unset: one MultiPathError
\* with the error of the nested check and the FieldError of d, and e has got
\* its default
C16_Witness ==
    /\ is_ensure_complete
    /\ lastCall.template = "Outer"
    /\ Len(failing_fields) = 2
    /\ Cardinality(unset_required) = 1
    /\ Head(lastCall.err).type = "MultiPathError"
    /\ Len(Head(lastCall.err).errors) = 2
    /\ Head(Head(lastCall.err).errors[2]).path = <<"d">>
    /\ ~hasattr(Before, lastCall.obj, "e")
    /\ getattr(St, lastCall.obj, "e") = PyNone

\* the fields of the objects that can be reached from obj in the state st,
\* each with its object
RECURSIVE slots(_, _, _)
slots(st, obj, cls) ==
    UNION {{[obj |-> obj, f |-> f]} \cup
           (IF /\ is_template_like(f.value_type)
               /\ hasattr(st, obj, f.attribute)
               /\ is_object(st, getattr(st, obj, f.attribute))
            THEN slots(st, getattr(st, obj, f.attribute), f.value_type.n)
            ELSE {}) : f \in Range(fields(cls))}

\* no source has supplied a value for the field of the object when the
\* completion check starts
unsupplied(s) == ~is_object(Before, s.obj) \/ ~hasattr(Before, s.obj, s.f.attribute)

\* the completion check reports a missing value for the field
reported_missing(f) ==
    /\ ~lastCall.ok
    /\ \E e \in leaf_errors(lastCall.err) :
           /\ e.type = "FieldError" /\ e.msg = "required value missing"
           /\ e.who = f.attribute /\ e.path[Len(e.path)] = f.key

\* C17 as stated: a field that no source supplied is reported as missing by
\* the completion check iff it has no default value, no default factory and
\* no optional type; an unsupplied field of optional type without a default
\* is set to None.
C17_RequiredOrDefaulted ==
    is_ensure_complete =>
        \A s \in slots(St, lastCall.obj, lastCall.template) :
            unsupplied(s) =>
                /\ reported_missing(s.f)
                       <=> (s.f.default = <<>> /\ s.f.factory = <<>>
                            /\ ~is_optional(s.f.value_type))
                /\ (s.f.default = <<>> /\ s.f.factory = <<>> /\ is_optional(s.f.value_type)) =>
                       /\ hasattr(St, s.obj, s.f.attribute)
                       /\ getattr(St, s.obj, s.f.attribute) = PyNone

----------------------------------------------------------------------------
(* Claims about the declaration of templates.                               *)

is_template_declared == lastCall.op = "template" /\ lastCall.ok

\* C18 as stated: a template that is declared has no two fields with the
\* same key, so the lookup of load_fields_values by key finds every field.
C18_UniqueKeys ==
    is_template_declared =>
        /\ \A i, j \in DOMAIN lastCall.fields :
               lastCall.fields[i].key = lastCall.fields[j].key => i = j
        /\ \A i \in DOMAIN lastCall.fields :
               field_by_key(lastCall.fields, PyStr(lastCall.fields[i].key))
                   = <<lastCall.fields[i]>>

\* the field f has no converter of its own, no template-like type and no
\* converter registered for its type
unconvertible(f) ==
    /\ f.converter = <<>>
    /\ ~is_template_like(f.value_type)
    /\ ~has_converter(f.value_type)

\* C26: the declaration of a template raises TypeError when an attribute,
\* with a default value or without, has no converter of its own, a type that
\* is not template-like and a type without a registered converter; every
\* field of a declared template has one of the three.
C26_ConverterRequired ==
    lastCall.op = "template" =>
        /\ (\E i \in DOMAIN lastCall.body : unconvertible(field_of(lastCall.body[i]))) =>
               ~lastCall.ok /\ Head(lastCall.err).type = "TypeError"
        /\ lastCall.ok =>
               \A i \in DOMAIN lastCall.fields : ~unconvertible(lastCall.fields[i])

----------------------------------------------------------------------------
(* Claims about invalid registrations and about Union.                      *)

\* the registrations the decorator must reject: an object that is no
\* converter, a complex converter with types, a simple converter without
invalid_registration(target, types) ==
    \/ ~is_converter_type(target)
    \/ is_complex_converter(target) /\ types # {}
    \/ is_converter_type(target) /\ ~is_complex_converter(target) /\ types = {}

\* a step that is a rejected call of register_converter leaves the registry;
\* with both lists unchanged, a lookup afterwards differs from one before
\* only in the cache it starts from
C19_RejectedStep ==
    (\E target \in Registrable, types \in SUBSET RegTypes :
        invalid_registration(target, types) /\ register_converter(target, types)) =>
            /\ lastCall'.raised \in {"TypeError", "ValueError"}
            /\ _CONVERTERS' = _CONVERTERS
            /\ _COMPLEX_CONVERTERS' = _COMPLEX_CONVERTERS
            /\ \A typ \in LookupTypes : lookup(typ, cache').res = get_converters(typ)

converting_alternatives(value, target) ==
    {i \in 1..Len(get_type_args(target)) :
        convert_value(value, get_type_args(target)[i], {}, St).ok}

\* the first of them in the order of declaration
first_alternative(value, target) ==
    CHOOSE i \in converting_alternatives(value, target) :
        \A j \in converting_alternatives(value, target) : i <= j

\* what the conversion of value to the union target has to give
union_result(value, target, first) ==
    IF has_type(value, target) = "True"
    THEN first.ok /\ first.val = value
    ELSE IF converting_alternatives(value, target) # {}
    THEN /\ first.ok
         /\ first.val = convert_value(value,
                            get_type_args(target)[first_alternative(value, target)],
                            {}, St).val
    ELSE ~first.ok /\ is_conversion_error(first.err)

\* every alternative of the union has a converter: UnionConverter takes it
all_convertible(target) == \A typ \in Range(get_type_args(target)) : has_converter(typ)

C20_UnionStep ==
    (/\ lastCall.op = "input"
     /\ is_union(lastCall.target) /\ all_convertible(lastCall.target)
     /\ lastCall'.op = "converted") =>
        union_result(lastCall.value, lastCall.target, lastCall'.first)

----------------------------------------------------------------------------
(* Claims about the tuple and the enum converters and about has_type of     *)
(* mappings.                                                                *)

\* the type the item at position i of the list is converted to
tuple_item_type(target, i) ==
    IF resolve_tuple(target).variadic
    THEN resolve_tuple(target).types[1]
    ELSE resolve_tuple(target).types[i]

\* convert_value of the item at position i of the list values
tuple_item(target, values, i) ==
    convert_value(values.val.v[i], tuple_item_type(target, i), {}, St)

\* what the conversion to the tuple type target has to give, values being
\* the conversion of the value to list
tuple_result(target, values, first) ==
    IF ~values.ok
    THEN ~first.ok /\ is_conversion_error(first.err)
    ELSE IF ~resolve_tuple(target).variadic /\ resolve_tuple(target).n # Len(values.val.v)
    THEN ~first.ok /\ is_conversion_error(first.err)
    ELSE IF \A i \in 1..Len(values.val.v) : tuple_item(target, values, i).ok
    THEN /\ first.ok
         /\ first.val.t = "tuple"
         /\ Len(first.val.v) = Len(values.val.v)
         /\ \A i \in 1..Len(values.val.v) :
                first.val.v[i] = tuple_item(target, values, i).val
    ELSE ~first.ok /\ is_conversion_error(first.err)

C21_TupleStep ==
    (/\ lastCall.op = "input"
     /\ is_tuple(lastCall.target) /\ lastCall.target.k = "alias"
     /\ lastCall'.op = "converted") =>
        tuple_result(lastCall.target,
                     convert_value(lastCall.value, Cls("list"), {}, St),
                     lastCall'.first)

\* C21: converting a value to a tuple type converts it to a list first; for a
\* tuple type of n item types it raises a ConversionError unless the list has
\* n items and converts item i to the i-th type, for a variadic tuple type it
\* converts every item to the one item type; the result is a tuple as long as
\* the list.
C21_TupleConversion == [][C21_TupleStep]_vars

\* [1, "a"] became the tuple (1, "a") of Tuple[int, str]
C21_Witness ==
    /\ lastCall.op = "converted"
    /\ lastCall.target = Alias("tuple", <<Cls("int"), Cls("str")>>)
    /\ lastCall.value = PyList(<<PyInt(1), PyStr("a")>>)
    /\ lastCall.first.ok
    /\ lastCall.first.val = PyTuple(<<PyInt(1), PyStr("a")>>)

\* the members of the enum cls whose name is the string value
named(cls, value) ==
    {i \in 1..Len(members(cls)) : value.t = "str" /\ members(cls)[i].name = value.v}

\* the members whose value equals value, as == of Python has it
valued(cls, value) ==
    {i \in 1..Len(members(cls)) : py_eq(members(cls)[i].value, value)}

\* the members whose name, or whose value when it is a string, is the string
\* value up to case
lowered(cls, value) ==
    {i \in 1..Len(members(cls)) :
        /\ value.t = "str"
        /\ \/ lower(members(cls)[i].name) = lower(value.v)
           \/ /\ members(cls)[i].value.t = "str"
              /\ lower(members(cls)[i].value.v) = lower(value.v)}

\* the first in declaration order of the members of cls numbered in S
first_of(cls, S) == Member(cls, members(cls)[CHOOSE i \in S : \A j \in S : i <= j].name)

\* what the conversion of value, no member of cls itself, to cls has to give
enum_result(cls, value, first) ==
    IF named(cls, value) # {}
    THEN first.ok /\ first.val = first_of(cls, named(cls, value))
    ELSE IF valued(cls, value) # {}
    THEN first.ok /\ first.val = first_of(cls, valued(cls, value))
    ELSE IF lowered(cls, value) # {}
    THEN first.ok /\ first.val = first_of(cls, lowered(cls, value))
    ELSE ~first.ok /\ is_conversion_error(first.err)

C22_EnumStep ==
    (/\ lastCall.op = "input"
     /\ is_enum(lastCall.target)
     /\ lastCall.value.t # lastCall.target.n
     /\ lastCall'.op = "converted") =>
        enum_result(lastCall.target.n, lastCall.value, lastCall'.first)

\* C22: converting a value to an enum gives the member of that name if there
\* is one, else the member of that value if there is one, else, for a string,
\* the first member in declaration order whose name or string value is the
\* string up to case, and raises a ConversionError when there is none; a
\* string that is the name of one member and the value of another becomes
\* the member of that name.
C22_EnumPrecedence == [][C22_EnumStep]_vars

\* value is an instance of the container of the mapping type typ, every key
\* of it has the key type and every value of it has the value type
mapping_typed(value, typ) ==
    /\ isinstance(value, get_origin(typ))
    /\ value.t = "dict"
    /\ \A i \in 1..Len(value.v) :
           /\ has_type(value.v[i][1], get_type_args(typ)[1]) = "True"
           /\ has_type(value.v[i][2], get_type_args(typ)[2]) = "True"

\* C23: has_type(value, M) of a parametrised mapping type M holds only if the
\* value is an instance of the container of M, every key has the key type
\* and every value has the value type of M.
C23_MappingHasType ==
    (/\ lastCall.op \in {"converted", "reconverted"}
     /\ is_generic_mapping(lastCall.target)
     /\ has_type(lastCall.value, lastCall.target) = "True") =>
        mapping_typed(lastCall.value, lastCall.target)

----------------------------------------------------------------------------
(* Claims about the environment source.                                     *)

\* part without its leading digits
RECURSIVE no_leading_digits(_)
no_leading_digits(part) ==
    IF part # <<>> /\ is_digit(Head(part)) THEN no_leading_digits(Tail(part)) ELSE part

\* a segment with every character that is no letter and no digit removed and
\* the leading digits stripped
portable_part(part) == no_leading_digits(SelectSeq(part, is_portable))

\* the segments so treated, joined with "_" and uppercased
portable_name(path) ==
    text([i \in 1..Len(joined([j \in 1..Len(path) |-> portable_part(path[j])])) |->
             upper(joined([j \in 1..Len(path) |-> portable_part(path[j])])[i])])

\* C24: the name of the environment variable of a path is the prefix followed
\* by the segments joined with "_" and uppercased, each segment without its
\* characters that are no letters and no digits and without leading digits,
\* so that no segment contributes a leading digit.
C24_EnvName ==
    lastCall.op = "get_env_name" =>
        lastCall.name = lastCall.prefix \o portable_name(lastCall.path)

----------------------------------------------------------------------------
(* Claims about several loads.                                              *)

\* the value v as the client sees it in the state st: of an object every
\* attribute getattr finds, on the object or on its class
RECURSIVE seen(_, _)
seen(st, v) ==
    IF is_object(st, v)
    THEN [cls |-> v.t,
          attrs |-> [a \in DOMAIN st.heap[v.id].attrs \cup DOMAIN class_attrs(v.t) |->
                        seen(st, getattr(st, v, a))]]
    ELSE v

\* what the load l gives when it runs alone
alone(l) == load(l.sources, l.template, Fresh)

\* the load l has given, and left behind, what it gives alone
as_alone(l) ==
    /\ l.ok = alone(l).ok
    /\ l.ok => seen(St, l.val) = seen(alone(l).st, alone(l).val)

\* C25: of two loads of one template, one after the other, each returns an
\* object that holds, nested objects and default values included, what the
\* load gives when it runs alone: nothing the other load wrote shows in it.
C25_LoadsIsolated ==
    (/\ lastCall.op = "load_again"
     /\ Len(lastCall.loads) = 2
     /\ lastCall.loads[1].template = lastCall.loads[2].template) =>
        as_alone(lastCall.loads[1]) /\ as_alone(lastCall.loads[2])

----------------------------------------------------------------------------
(* Claims about the loading from the environment.                           *)

\* the leaf fields of a template at every depth, each with the attributes
\* that lead from the root object to the object holding it and with its path
\* of keys
RECURSIVE leaves_of(_, _, _)
leaves_of(cls, attrs, path) ==
    UNION {IF is_template_like(f.value_type)
           THEN leaves_of(f.value_type.n, Append(attrs, f.attribute), Append(path, f.key))
           ELSE {[attrs |-> attrs, path |-> Append(path, f.key), field |-> f]} :
           f \in Range(fields(cls))}

\* the object reached from obj by following the attributes, if there is one
RECURSIVE reach(_, _, _)
reach(st, obj, attrs) ==
    IF attrs = <<>> THEN <<obj>>
    ELSE IF ~hasattr(st, obj, Head(attrs)) THEN <<>>
    ELSE reach(st, getattr(st, obj, Head(attrs)), Tail(attrs))

\* the attributes set on the object itself
own(st, obj) == st.heap[obj.id].attrs

\* what the leaf holds in the state st: the value set on the object reached
\* along its attributes, or nothing when that object is not there or has no
\* value of its own
stored(st, obj, leaf) ==
    IF reach(st, obj, leaf.attrs) = <<>> THEN <<>>
    ELSE IF leaf.field.attribute \notin DOMAIN own(st, reach(st, obj, leaf.attrs)[1]) THEN <<>>
    ELSE <<own(st, reach(st, obj, leaf.attrs)[1])[leaf.field.attribute]>>

\* the leaf has its variable set in the environment of the last call
is_set(leaf) == env_key(lastCall.prefix, leaf.path) \in DOMAIN lastCall.environ

\* the decoded value of the variable of the leaf, converted to its type
env_value(leaf) ==
    convert_value(literal_eval(lastCall.environ[env_key(lastCall.prefix, leaf.path)])[1],
                  leaf.field.value_type, {}, St).val


leaf_loaded(leaf) ==
    IF is_set(leaf) THEN stored(St, lastCall.obj, leaf) = <<env_value(leaf)>>
    ELSE stored(St, lastCall.obj, leaf) = stored(Before, lastCall.obj, leaf)

\* C27: after Env.load_into has returned, every leaf field of the template,
\* at any depth, whose variable is set holds the decoded and converted value
\* on the object reached from the root along the attributes of its path, and
\* every other leaf is as it was before.
C27_EnvLeavesStored ==
    (lastCall.op = "env_load_into" /\ lastCall.ok) =>
        \A leaf \in leaves_of(lastCall.template, <<>>, <<>>) : leaf_loaded(leaf)

\* no leaf of the template has its variable set
unmatched == \A leaf \in leaves_of(lastCall.template, <<>>, <<>>) : ~is_set(leaf)

\* ensure_complete has given what it gives on the object as it was before the
\* source ran
as_unloaded(r) ==
    /\ lastCall.ok = r.ok
    /\ lastCall.err = r.err
    /\ seen(St, lastCall.obj) = seen(r.st, lastCall.obj)

\* C28: Env.load_into with no variable of the template set leaves the heap
\* as it was, making no object of a nested template, and the completion
\* check that follows gives what it gives on the object without the source.
C28_EnvNoValueNoChange ==
    /\ (lastCall.op = "env_load_into" /\ unmatched) => heap = lastCall.before
    /\ (lastCall.op = "env_complete" /\ unmatched) =>
           as_unloaded(ensure_complete(lastCall.obj, lastCall.template, Before))

----------------------------------------------------------------------------
(* Claims about a mapping loaded over earlier values.                       *)

\* what the object holds itself under the attribute in the state st: the
\* value, or nothing when the object is not there or the attribute is unset
held(st, obj, attr) ==
    IF ~is_object(st, obj) THEN <<>>
    ELSE IF attr \notin DOMAIN own(st, obj) THEN <<>>
    ELSE <<own(st, obj)[attr]>>

\* the entries of the mapping the loop has taken: all of them up to an
\* unexpected key that is raised
RECURSIVE taken(_, _, _)
taken(fs, items, ignore_unknown) ==
    IF items = <<>> THEN <<>>
    ELSE IF field_by_key(fs, Head(items)[1]) = <<>>
    THEN IF ignore_unknown THEN taken(fs, Tail(items), ignore_unknown) ELSE <<>>
    ELSE <<Head(items)>> \o taken(fs, Tail(items), ignore_unknown)

\* the conversion of the value of an entry for its field
entry_conversion(field, value) == convert_value(value, field.value_type, {}, Before)

\* the entry of a value for the field of obj has been written or left alone
\* as its conversion went; the entries of a mapping for a nested template
\* are those of the nested object
RECURSIVE entries_settled(_, _, _, _), entry_settled(_, _, _)
entry_settled(obj, field, value) ==
    IF is_template_like(field.value_type) /\ isinstance(value, "Mapping")
    THEN /\ held(St, obj, field.attribute) # <<>>
         /\ entries_settled(held(St, obj, field.attribute)[1], fields(field.value_type.n),
                            value.v, FALSE)
    ELSE IF entry_conversion(field, value).ok
    THEN held(St, obj, field.attribute) = <<entry_conversion(field, value).val>>
    ELSE held(St, obj, field.attribute) = held(Before, obj, field.attribute)

entries_settled(obj, fs, items, ignore_unknown) ==
    \A i \in DOMAIN taken(fs, items, ignore_unknown) :
        entry_settled(obj, field_by_key(fs, taken(fs, items, ignore_unknown)[i][1])[1],
                      taken(fs, items, ignore_unknown)[i][2])

\* C29: when load_fields_values raises, every entry it has taken whose
\* conversion failed has left its attribute as it was before the call, unset
\* or with its earlier value, and every entry whose conversion succeeded,
\* before or after a failing one, has its attribute set to the converted value.
C29_NoRollbackNoPartialWrite ==
    (lastCall.op = "load_over" /\ ~lastCall.ok) =>
        entries_settled(lastCall.obj, fields(lastCall.template), lastCall.mapping.v,
                        lastCall.ignore_unknown)

\* b held 1, then {b: "x", c: 1} was loaded: the call raised for b, which
\* still holds 1, and c, after it, holds 1
C29_Witness ==
    /\ lastCall.op = "load_over" /\ ~lastCall.ok
    /\ lastCall.template = "Inner"
    /\ lastCall.mapping = PyDict(<<<<PyStr("b"), PyStr("x")>>, <<PyStr("c"), PyInt(1)>>>>)
    /\ held(Before, lastCall.obj, "b") = <<PyInt(1)>>
    /\ held(St, lastCall.obj, "b") = <<PyInt(1)>>
    /\ held(Before, lastCall.obj, "c") = <<>>
    /\ held(St, lastCall.obj, "c") = <<PyInt(1)>>

----------------------------------------------------------------------------
(* Claims about unions with NoneType.                                       *)

\* the target of the last call is a union with NoneType among its alternatives
optional_target ==
    is_union(lastCall.target) /\ NoneType \in Range(get_type_args(lastCall.target))

\* the alternatives of the union declared before NoneType
before_none(types) ==
    SubSeq(types, 1, (CHOOSE i \in DOMAIN types :
                          types[i] = NoneType /\ \A j \in 1..(i - 1) : types[j] # NoneType) - 1)

\* the value does not have the type of the union and converts to none of the
\* alternatives before NoneType
only_none(value, target) ==
    /\ has_type(value, target) # "True"
    /\ \A typ \in Range(before_none(get_type_args(target))) :
           ~convert_value(value, typ, {}, St).ok

\* the conversion to the union has given a value, and None for a value that
\* only None is left for
optional_converted ==
    /\ lastCall.first.ok
    /\ only_none(lastCall.value, lastCall.target) => lastCall.first.val = PyNone

====
